---- MODULE Spec2Model ----
(***************************************************************************)
(* Model of the NDL historical-material chat: the evidence retriever       *)
(* (src/src/lib/ndl-api.ts), the request handler of /api/chat              *)
(* (src/unnamed/part_001) and the citation renderer of the chat page.      *)
(*                                                                         *)
(* A JavaScript string is a sequence of characters; a character is a TLA+  *)
(* string naming it ("a", "<", and romanised names such as "nani" for the  *)
(* kanji of the source), so Len is the JavaScript length.                  *)
(***************************************************************************)
EXTENDS Integers, Sequences, FiniteSets, TLC

VARIABLES
    hpc,        \* searchHistoricalMaterials: "idle", "primary", "loosened", "page", "done"
    query,      \* its parameter query
    keywords,   \* its local keywords
    books,      \* its local books
    bi,         \* index in books of the document of the current iteration
    ki,         \* index in keywords of the keyword of the current iteration
    results,    \* its local results
    seenPids,   \* its local seenPids
    caughtError,  \* the error its catch of line 97 has caught, "none" before
    hret,       \* the list it returned
    served,     \* the passages the passage search has returned to it, a count for
                \* each document
    spc,        \* searchRandomMaterial: "idle", "search", "inner", "done"
    sret,       \* the list it returned
    docReq,     \* parameters of the document search in flight
    ppc,        \* POST: "idle" (no request), "start", "extract", "retrieve", "broaden",
                \*       "apology", "compose", "done"
    message,    \* its local message
    apiKey,     \* its local apiKey
    modelName,  \* its local modelName
    extractionText,  \* its local extractionText
    extractionData,  \* its local extractionData (query, focusKeywords, isRandom)
    materials,  \* its local materials
    genModel,   \* generateContentWithRetry: the model of the wrapped call
    genPrompt,  \* the prompt of the wrapped call
    gpc,        \* "idle", "call" (an attempt is in flight), "backoff" (the timer runs)
    attempt,    \* its loop variable i
    waits,      \* the delays of the backoff timers the wrapped call has started
    outcomes,   \* what the attempts of the wrapped call have produced so far
    error,      \* the error its catch has caught
    responses,  \* the responses the handler has returned
    rpc,        \* renderMessageContent: "idle", "call", "done"
    content,    \* its parameter content
    sources,    \* its parameter sources
    rendered,   \* the nodes it returned
    cpc,        \* cleanSnippet applied twice: "idle", "call", "once", "twice"
    ctext,      \* the text given to the first call
    cleaned,    \* what the first call returned
    recleaned,  \* what the call on that result returned
    catalogue,  \* the search endpoint: the documents it holds and the longest list
                \* it answers with
    suspended,  \* the locals of the request that is not running, while it waits
    calls,      \* the calls of the services the request has made so far, counted
                \* by kind when the count is on
    threads,    \* the chat page: its state threads
    activeThreadId,  \* its state activeThreadId
    input,      \* its state input
    isLoading,  \* its state isLoading
    deleteId,   \* its state deleteId
    inflight,   \* the calls of handleSubmit that wait for fetch, each with the
                \* activeThreadId and the userMessage of its closure
    loaded,     \* the effect of lines 300-331 has run
    created,    \* the thread identifiers handed out so far
    uiLog       \* what the last call of handleSubmit did, and where the last
                \* answer went

retrievalVars == <<hpc, query, keywords, books, bi, ki, results, seenPids, caughtError, hret,
                   served, spc, sret, docReq>>

postVars == <<ppc, message, apiKey, modelName, extractionText, extractionData, materials,
              genModel, genPrompt, gpc, attempt, waits, outcomes, error, responses>>

serverVars == <<retrievalVars, postVars>>

renderVars == <<rpc, content, sources, rendered>>

cleanVars == <<cpc, ctext, cleaned, recleaned>>

\* the endpoint and the request that waits: no step of a request changes them
worldVars == <<catalogue, suspended>>

chatVars == <<threads, activeThreadId, input, isLoading, deleteId, inflight, loaded, created,
              uiLog>>

\* what the server's actions leave alone
sideVars == <<renderVars, cleanVars, worldVars, chatVars>>

vars == <<serverVars, sideVars, calls>>

\* ------------------------------------------------------------------------
\* Bounds of the model
\* ------------------------------------------------------------------------
MaxBooks == 3
MaxRequestBooks == 1
MaxContent == 4
MaxCiteId == 3
MaxSources == 2
MaxKw == 3
RandomGrain == 4
MaxChunks == 3
MaxThreads == 2
MaxMessages == 5

\* ------------------------------------------------------------------------
\* JavaScript values and string primitives
\* ------------------------------------------------------------------------
\* The value undefined (no real string: its one element is not a character).
Undefined == <<"undefined">>

Falsy(text) == text = Undefined \/ text = <<>>

\* An array-valued field that may be absent: undefined, or the array.
NoList == [defined |-> FALSE, val |-> <<>>]
List(l) == [defined |-> TRUE, val |-> l]

\* x || []
OrEmpty(x) == IF x.defined THEN x.val ELSE <<>>

WhiteSpace == {" ", "\t", "\n"}

Digits == {"0", "1", "2", "3", "4", "5", "6", "7", "8", "9"}

\* p occurs in s at position i
OccursAt(s, i, p) ==
    /\ i >= 1
    /\ i + Len(p) - 1 <= Len(s)
    /\ \A k \in 1..Len(p) : s[i + k - 1] = p[k]

\* String.prototype.includes
Includes(s, p) == \E i \in 1..(Len(s) + 1) : OccursAt(s, i, p)

\* String.prototype.replace(/p/g, r) for a literal pattern p
RECURSIVE ReplaceLiteralFrom(_, _, _, _)
ReplaceLiteralFrom(s, i, p, r) ==
    IF i > Len(s) THEN <<>>
    ELSE IF OccursAt(s, i, p) THEN r \o ReplaceLiteralFrom(s, i + Len(p), p, r)
    ELSE <<s[i]>> \o ReplaceLiteralFrom(s, i + 1, p, r)

ReplaceLiteral(s, p, r) == ReplaceLiteralFrom(s, 1, p, r)

\* least j >= i with s[j] = c, or 0
RECURSIVE IndexOfFrom(_, _, _)
IndexOfFrom(s, c, i) ==
    IF i > Len(s) THEN 0
    ELSE IF s[i] = c THEN i
    ELSE IndexOfFrom(s, c, i + 1)

\* replace(/<em[^>]*>/g, ''): "<em", then everything up to the first ">"
RECURSIVE RemoveEmOpenFrom(_, _)
RemoveEmOpenFrom(s, i) ==
    IF i > Len(s) THEN <<>>
    ELSE IF OccursAt(s, i, <<"<", "e", "m">>) /\ IndexOfFrom(s, ">", i + 3) > 0
         THEN RemoveEmOpenFrom(s, IndexOfFrom(s, ">", i + 3) + 1)
    ELSE <<s[i]>> \o RemoveEmOpenFrom(s, i + 1)

RemoveEmOpen(s) == RemoveEmOpenFrom(s, 1)

\* replace(/\s+/g, ' ')
RECURSIVE CollapseWhiteSpaceFrom(_, _)
CollapseWhiteSpaceFrom(s, i) ==
    IF i > Len(s) THEN <<>>
    ELSE IF s[i] \in WhiteSpace
         THEN IF i > 1 /\ s[i - 1] \in WhiteSpace
              THEN CollapseWhiteSpaceFrom(s, i + 1)
              ELSE <<" ">> \o CollapseWhiteSpaceFrom(s, i + 1)
    ELSE <<s[i]>> \o CollapseWhiteSpaceFrom(s, i + 1)

CollapseWhiteSpace(s) == CollapseWhiteSpaceFrom(s, 1)

\* String.prototype.trim
RECURSIVE TrimStart(_)
TrimStart(s) ==
    IF s # <<>> /\ Head(s) \in WhiteSpace THEN TrimStart(Tail(s)) ELSE s

RECURSIVE TrimEnd(_)
TrimEnd(s) ==
    IF s # <<>> /\ s[Len(s)] \in WhiteSpace
    THEN TrimEnd(SubSeq(s, 1, Len(s) - 1))
    ELSE s

Trim(s) == TrimEnd(TrimStart(s))

\* cleanSnippet(text)
cleanSnippet(text) ==
    IF Falsy(text) THEN <<>>
    ELSE Trim(CollapseWhiteSpace(
            ReplaceLiteral(
                ReplaceLiteral(RemoveEmOpen(text), <<"<", "/", "e", "m", ">">>, <<>>),
                <<"&", "#", "x", "2", "F", ";">>, <<"/">>)))

\* query.split(' ')[0]
FirstToken(s) ==
    IF IndexOfFrom(s, " ", 1) = 0 THEN s
    ELSE SubSeq(s, 1, IndexOfFrom(s, " ", 1) - 1)

\* ------------------------------------------------------------------------
\* The two search endpoints: what they may answer
\* ------------------------------------------------------------------------
\* size of a passage query (the answers honour it)
PageSize == 2

\* raw excerpts: one whose normal form is long enough, one longer than 5
\* characters only before it is normalised
RawLong == <<"<", "e", "m", ">", "f", "o", "x", "<", "/", "e", "m", ">", " ", " ", "t", "a", "l", "e">>
RawShort == <<" ", "a", "b", "&", "#", "x", "2", "F", ";", "c", "d", "\n">>
HlPaged == <<"<", "e", "m", ">", "o", "n", "i", "<", "/", "e", "m", ">", " ", "(", "0", "0", "1", "2", ".", "j", "p", "2", ")">>
HlPlain == <<"a", "b", " ", "c">>
HlOther == <<"(", "7", ".", "j", "p", "2", ")", " ", "k", "a", "p", "p", "a">>

\* a highlight that is not a string (a JSON null): hl.match throws on it
NotAString == <<"null">>

\* cleanSnippet and the page number of a highlight, tabulated once for the
\* texts the endpoints return
RawTexts == {RawLong, RawShort, HlPaged, HlPlain, HlOther}

Book1 == [id |-> <<"1">>, title |-> <<"T", "1">>, highlights |-> NoList]
Book2 == [id |-> <<"2">>, title |-> <<"T", " ", "2">>, highlights |-> List(<<HlPaged, HlPlain, HlOther>>)]
Book3 == [id |-> <<"3">>, title |-> <<"T", "3">>, highlights |-> List(<<HlPlain, NotAString>>)]
Book4 == [id |-> <<"4">>, title |-> <<"T", "4">>, highlights |-> List(<<HlPaged>>)]

BookUniverse == {Book1, Book2, Book3, Book4}

\* the documents the search answers within a request
RequestBooks == {Book1, Book2}

\* keywords of the model's intents
KeywordPool == << <<"k", "1">>, <<"k", "2">>, <<"k", "3">>, <<"k", "4">>, <<"k", "5">> >>

\* the passage the passage search returns for a keyword a document matches:
\* one page per document, with a short excerpt in the last document
PassageOf(id) ==
    IF id = Book4.id THEN [page |-> <<"7">>, snippet |-> RawShort]
    ELSE [page |-> <<"3">>, snippet |-> RawLong]

RECURSIVE Repeat(_, _)
Repeat(x, n) == IF n = 0 THEN <<>> ELSE <<x>> \o Repeat(x, n - 1)

\* pageResponse.data for a query scoped to document id: undefined, or at
\* most PageSize passages
PageData(id) == {NoList} \cup {List(Repeat(PassageOf(id), n)) : n \in 0..PageSize}

RECURSIVE SeqsUpTo(_, _)
SeqsUpTo(S, n) ==
    IF n = 0 THEN {<<>>}
    ELSE SeqsUpTo(S, n - 1) \cup
         {Append(q, x) : q \in {r \in SeqsUpTo(S, n - 1) : Len(r) = n - 1}, x \in S}

\* bookResponse.data.list: undefined, or a list of at most n candidate
\* documents of U
BookListData(U, n) == {NoList} \cup {List(l) : l \in SeqsUpTo(U, n)}

\* ------------------------------------------------------------------------
\* searchHistoricalMaterials: the synchronous code between its awaits
\* ------------------------------------------------------------------------
LinkBase == <<"https://dl.ndl.go.jp/pid/">>

\* A focusKeywords value: an array of strings, or a string or undefined.
ArrayValue(a) == [isArray |-> TRUE, arr |-> a, str |-> Undefined]
StringValue(x) == [isArray |-> FALSE, arr |-> <<>>, str |-> x]

\* Array.isArray(focusKeywords) ? focusKeywords : [focusKeywords]
KeywordsOf(focusKeywords) ==
    IF focusKeywords.isArray THEN focusKeywords.arr ELSE <<focusKeywords.str>>

\* end of the run of digits that starts at i (i - 1 when s[i] is no digit)
RECURSIVE DigitsEnd(_, _)
DigitsEnd(s, i) ==
    IF i <= Len(s) /\ s[i] \in Digits THEN DigitsEnd(s, i + 1) ELSE i - 1

\* hl.match(/\((\d+)\.jp2\)/): the digits of the leftmost match, or Undefined
RECURSIVE PageMatchFrom(_, _)
PageMatchFrom(hl, i) ==
    IF i > Len(hl) THEN Undefined
    ELSE IF /\ hl[i] = "("
            /\ DigitsEnd(hl, i + 1) >= i + 1
            /\ OccursAt(hl, DigitsEnd(hl, i + 1) + 1, <<".", "j", "p", "2", ")">>)
         THEN SubSeq(hl, i + 1, DigitsEnd(hl, i + 1))
    ELSE PageMatchFrom(hl, i + 1)

\* parseInt(digits).toString(): the digits without leading zeros
RECURSIVE ParseIntToString(_)
ParseIntToString(d) ==
    IF Len(d) > 1 /\ Head(d) = "0" THEN ParseIntToString(Tail(d)) ELSE d

PageNum(hl) ==
    IF PageMatchFrom(hl, 1) = Undefined THEN <<"1">>
    ELSE ParseIntToString(PageMatchFrom(hl, 1))

CleanedTexts == [t \in RawTexts |-> cleanSnippet(t)]
Cleaned(text) == IF text \in RawTexts THEN CleanedTexts[text] ELSE cleanSnippet(text)

PageNums == [t \in RawTexts |-> PageNum(t)]
PageNumOf(hl) == IF hl \in RawTexts THEN PageNums[hl] ELSE PageNum(hl)

\* lines 59-70 with the first passage of an answer pushed and the others left
PageItemsFirstOnly(book, pages) ==
    IF pages = <<>> THEN <<>>
    ELSE <<[title |-> book.title,
            pid |-> book.id,
            page |-> Head(pages).page,
            snippet |-> Cleaned(Head(pages).snippet),
            link |-> LinkBase \o book.id \o <<"/">> \o Head(pages).page]>>

\* the items a passage answer appends for a document (lines 59-70)
RECURSIVE PageItems(_, _)
PageItems(book, pages) ==
    IF pages = <<>> THEN <<>>
    ELSE <<[title |-> book.title,
            pid |-> book.id,
            page |-> Head(pages).page,
            snippet |-> Cleaned(Head(pages).snippet),
            link |-> LinkBase \o book.id \o <<"/">> \o Head(pages).page]>>
         \o PageItems(book, Tail(pages))

\* lines 79-89 with the link of every highlight item ending in page 1
RECURSIVE HighlightItemsLinkPageOne(_, _)
HighlightItemsLinkPageOne(book, hls) ==
    IF hls = <<>> THEN <<>>
    ELSE <<[title |-> book.title,
            pid |-> book.id,
            page |-> PageNumOf(Head(hls)),
            snippet |-> Cleaned(Head(hls)),
            link |-> LinkBase \o book.id \o <<"/", "1">>]>>
         \o HighlightItemsLinkPageOne(book, Tail(hls))

\* one item per highlight (lines 79-89)
RECURSIVE HighlightItems(_, _)
HighlightItems(book, hls) ==
    IF hls = <<>> THEN <<>>
    ELSE <<[title |-> book.title,
            pid |-> book.id,
            page |-> PageNumOf(Head(hls)),
            snippet |-> Cleaned(Head(hls)),
            link |-> LinkBase \o book.id \o <<"/">> \o PageNumOf(Head(hls))]>>
         \o HighlightItems(book, Tail(hls))

\* the highlights forEach reaches before hl.match throws (line 80)
RECURSIVE HighlightsReached(_)
HighlightsReached(hls) ==
    IF hls = <<>> \/ Head(hls) = NotAString THEN <<>>
    ELSE <<Head(hls)>> \o HighlightsReached(Tail(hls))

\* line 78 without its first test
UseHighlightsAlways(book, res) ==
    /\ book.highlights.defined
    /\ Len(book.highlights.val) > 0

\* line 78 with its first test made on the items the filter of line 96 keeps
UseHighlightsOnKept(book, res) ==
    /\ \A k \in 1..Len(res) : res[k].pid = book.id => Len(res[k].snippet) <= 5
    /\ book.highlights.defined
    /\ Len(book.highlights.val) > 0

\* results.filter(r => r.pid === book.id).length === 0 && book.highlights
\*   && book.highlights.length > 0
UseHighlights(book, res) ==
    /\ \A k \in 1..Len(res) : res[k].pid # book.id
    /\ book.highlights.defined
    /\ Len(book.highlights.val) > 0

\* results after the highlight step of a document (lines 77-90)
WithHighlights(book, res) ==
    IF UseHighlights(book, res)
    THEN res \o HighlightItems(book, HighlightsReached(book.highlights.val))
    ELSE res

\* the highlight step of a document throws (line 80 on a highlight that is
\* not a string)
HighlightsThrow(book, res) ==
    /\ UseHighlights(book, res)
    /\ \E k \in 1..Len(book.highlights.val) : book.highlights.val[k] = NotAString

\* line 96 without its filter: every collected item is returned
FilterResultsNoTest(res) == res

\* results.filter(r => r.snippet.length > 5)

RECURSIVE FilterResults(_)
FilterResults(res) ==
    IF res = <<>> THEN <<>>
    ELSE IF Len(Head(res).snippet) > 5 THEN <<Head(res)>> \o FilterResults(Tail(res))
    ELSE FilterResults(Tail(res))

InnerCap == 8
OuterCap == 10
BookSearchSize == 15
FallbackSearchSize == 10

\* Where the loop over the candidates stands once it reaches its head with
\* the document at index i next: at the passage query of a document's first
\* keyword, or at the return.  AfterKeywords is the code after a document's
\* keyword loop (lines 77-93).
RECURSIVE LoopHead(_, _, _, _, _)
RECURSIVE AfterKeywords(_, _, _, _, _)
\* the loop head without the test of line 46
LoopHeadNoSkip(bks, kws, i, res, seen) ==
    IF i > Len(bks)
    THEN [pc |-> "return", bi |-> i, ki |-> 0, results |-> res, seenPids |-> seen]
    ELSE IF Len(kws) > 0
         THEN [pc |-> "page", bi |-> i, ki |-> 1, results |-> res, seenPids |-> seen]
    ELSE AfterKeywords(bks, kws, i, res, seen)

\* lines 45-49: the head of the loop over the candidates
LoopHead(bks, kws, i, res, seen) ==
    IF i > Len(bks)
    THEN [pc |-> "return", bi |-> i, ki |-> 0, results |-> res, seenPids |-> seen]
    ELSE IF bks[i].id \in seen THEN LoopHead(bks, kws, i + 1, res, seen)
    ELSE IF Len(kws) > 0
         THEN [pc |-> "page", bi |-> i, ki |-> 1, results |-> res, seenPids |-> seen]
    ELSE AfterKeywords(bks, kws, i, res, seen)

\* lines 77-93: the highlight step of document i and the test of the outer cap
AfterKeywords(bks, kws, i, res, seen) ==
    LET res2 == WithHighlights(bks[i], res)
        seen2 == seen \cup {bks[i].id}
    IN  IF HighlightsThrow(bks[i], res)
        THEN [pc |-> "throw", bi |-> i, ki |-> 0, results |-> res2, seenPids |-> seen]
        ELSE IF Len(res2) >= OuterCap
        THEN [pc |-> "return", bi |-> i, ki |-> 0, results |-> res2, seenPids |-> seen2]
        ELSE LoopHead(bks, kws, i + 1, res2, seen2)

\* line 74 without the test of the count
AfterPageNoCap(bks, kws, i, k, res, seen) ==
    IF k = Len(kws)
    THEN AfterKeywords(bks, kws, i, res, seen)
    ELSE [pc |-> "page", bi |-> i, ki |-> k + 1, results |-> res, seenPids |-> seen]

\* after the passage query of keyword k of document i has been answered and
\* its items pushed (line 74 on)
AfterPage(bks, kws, i, k, res, seen) ==
    IF Len(res) >= InnerCap \/ k = Len(kws)
    THEN AfterKeywords(bks, kws, i, res, seen)
    ELSE [pc |-> "page", bi |-> i, ki |-> k + 1, results |-> res, seenPids |-> seen]

\* ------------------------------------------------------------------------
\* searchHistoricalMaterials: one action per await
\* ------------------------------------------------------------------------
\* an answer of the document search: a failure, or a body with data.list
DocAnswersUpTo(U, n) == {[ok |-> FALSE, list |-> NoList]} \cup
                        {[ok |-> TRUE, list |-> l] : l \in BookListData(U, n)}

\* the answers of the document search: lists of the endpoint's documents
DocAnswers == DocAnswersUpTo(catalogue.books, catalogue.size)

\* the passage query the endpoint never answers: keyword k2 in the first
\* document
QueryFails(id, kw) == id = Book1.id /\ kw = KeywordPool[2]

\* an answer of the passage search for the keyword kw in the document id: a
\* failure, or a body with data
PageAnswers(id, kw) ==
    IF QueryFails(id, kw) THEN {[ok |-> FALSE, data |-> NoList]}
    ELSE {[ok |-> FALSE, data |-> NoList]} \cup
         {[ok |-> TRUE, data |-> d] : d \in PageData(id)}

\* nothing is counted; the count with g logical generation calls, a attempts,
\* w backoff waits and d document searches more
NoCount == [on |-> FALSE, gen |-> 0, attempts |-> 0, waits |-> 0, docs |-> 0]

Counted(g, a, w, d) ==
    IF calls.on
    THEN [on |-> TRUE, gen |-> calls.gen + g, attempts |-> calls.attempts + a,
          waits |-> calls.waits + w, docs |-> calls.docs + d]
    ELSE calls

\* no passage has been returned yet
NoneServed == [id \in {b.id : b \in BookUniverse} |-> 0]

NoDocReq == [keyword |-> Undefined, from |-> -1, size |-> 0]

\* the call: lines 19-28, up to the first await
CallHistorical(q, focusKeywords) ==
    /\ hpc' = "primary"
    /\ query' = q
    /\ keywords' = KeywordsOf(focusKeywords)
    /\ books' = <<>>
    /\ bi' = 0
    /\ ki' = 0
    /\ results' = <<>>
    /\ seenPids' = {}
    /\ caughtError' = "none"
    /\ hret' = <<>>
    /\ served' = NoneServed
    /\ docReq' = [keyword |-> q, from |-> -1, size |-> BookSearchSize]
    /\ calls' = Counted(0, 0, 0, 1)

\* its frame is gone once the caller has taken the returned list
HistoricalIdle ==
    /\ hpc' = "idle"
    /\ query' = Undefined
    /\ keywords' = <<>>
    /\ books' = <<>>
    /\ bi' = 0
    /\ ki' = 0
    /\ results' = <<>>
    /\ seenPids' = {}
    /\ caughtError' = "none"
    /\ hret' = <<>>
    /\ served' = NoneServed

\* lines 97-100 returning what was collected instead of []
CatchReturnCollected(res) == FilterResults(res)

\* lines 97-100: what the catch returns, results being the items collected
CatchReturn(res) == <<>>

\* the catch of line 97 has run
caught == caughtError # "none"

\* the catch of line 97 receives e: return []
ReturnEmptyOnError(e) ==
    /\ hpc' = "done"
    /\ caughtError' = e
    /\ hret' = CatchReturn(results)
    /\ docReq' = NoDocReq
    /\ calls' = calls
    /\ UNCHANGED <<bi, ki, results, seenPids>>

\* the loop runs on to its next await, or to the return of line 96
RunLoop(st) ==
    /\ bi' = st.bi
    /\ ki' = st.ki
    /\ results' = st.results
    /\ seenPids' = st.seenPids
    /\ docReq' = NoDocReq
    /\ calls' = calls
    /\ caughtError' = (IF st.pc = "throw" THEN "TypeError" ELSE "none")
    /\ IF st.pc = "return"
       THEN hpc' = "done" /\ hret' = FilterResults(st.results)
       ELSE IF st.pc = "throw"
       THEN hpc' = "done" /\ hret' = CatchReturn(st.results)
       ELSE hpc' = "page" /\ hret' = hret

\* lines 23-40: the primary document search is answered
PrimarySearch ==
    /\ UNCHANGED sideVars
    /\ hpc = "primary"
    /\ \E ans \in DocAnswers :
        IF ~ans.ok
        THEN ReturnEmptyOnError("request failed") /\ books' = books
        ELSE /\ books' = OrEmpty(ans.list)
             /\ IF Len(OrEmpty(ans.list)) = 0
                THEN IF query = Undefined
                     THEN ReturnEmptyOnError("TypeError")    \* query.split throws
                     ELSE /\ hpc' = "loosened"
                          /\ calls' = Counted(0, 0, 0, 1)
                          /\ docReq' = [keyword |-> FirstToken(query), from |-> -1,
                                        size |-> FallbackSearchSize]
                          /\ UNCHANGED <<bi, ki, results, seenPids, caughtError, hret>>
                ELSE RunLoop(LoopHead(OrEmpty(ans.list), keywords, 1, <<>>, {}))
    /\ UNCHANGED <<query, keywords, spc, sret, served>>
    /\ UNCHANGED postVars

\* lines 35-39: the loosened document search is answered
LoosenedSearch ==
    /\ UNCHANGED sideVars
    /\ hpc = "loosened"
    /\ \E ans \in DocAnswers :
        IF ~ans.ok
        THEN ReturnEmptyOnError("request failed") /\ books' = books
        ELSE /\ books' = OrEmpty(ans.list)
             /\ RunLoop(LoopHead(OrEmpty(ans.list), keywords, 1, <<>>, {}))
    /\ UNCHANGED <<query, keywords, spc, sret, served>>
    /\ UNCHANGED postVars

\* lines 50-73 with the failure of a passage query emptying results
PushPagesDropOnFailure(res, book, ans) ==
    IF ans.ok THEN res \o PageItems(book, OrEmpty(ans.data)) ELSE <<>>

\* lines 50-73 with the items put in front of results
PushPagesInFront(res, book, ans) ==
    IF ans.ok THEN PageItems(book, OrEmpty(ans.data)) \o res ELSE res

\* lines 50-73: results once the passage query of a keyword of the document
\* book is answered; a failure is swallowed by the catch of line 71
PushPages(res, book, ans) ==
    IF ans.ok THEN res \o PageItems(book, OrEmpty(ans.data)) ELSE res

\* the passage search in flight while hpc = "page" (lines 51-57)
PageRequest == [book |-> books[bi].id, contents |-> keywords[ki], size |-> PageSize]

\* lines 50-75: the passage search of keyword ki of document bi is answered
PageSearch ==
    /\ UNCHANGED sideVars
    /\ hpc = "page"
    /\ \E ans \in PageAnswers(books[bi].id, keywords[ki]) :
        /\ RunLoop(AfterPage(books, keywords, bi, ki, PushPages(results, books[bi], ans),
                             seenPids))
        /\ served' = [served EXCEPT ![books[bi].id] = @ + Len(OrEmpty(ans.data))]
    /\ UNCHANGED <<query, keywords, books, spc, sret>>
    /\ UNCHANGED postVars

\* ------------------------------------------------------------------------
\* searchRandomMaterial
\* ------------------------------------------------------------------------
randomKeywords ==
    << <<"kai", "dan">>, <<"ki", "dan">>, <<"jitsu", "roku">>, <<"hyaku", "mono", "gatari">>,
       <<"kai", "i">>, <<"bake", "mono">>, <<"yuu", "rei">>, <<"shou", "wa">> >>

focusKw == << <<"kai">>, <<"oni">>, <<"onna">>, <<"otoko">>, <<"shi">>, <<"rei">> >>

RandomFromRange == 50
RandomSearchSize == 5

\* Math.random(): n / RandomGrain for n in 0..RandomGrain-1
RandomDraws == 0..(RandomGrain - 1)

\* Math.floor(Math.random() * n)
FloorRandom(r, n) == (r * n) \div RandomGrain

\* the call: lines 108-118, up to the await
CallRandom ==
    /\ spc' = "search"
    /\ sret' = <<>>
    /\ calls' = Counted(0, 0, 0, 1)
    /\ \E r1 \in RandomDraws, r2 \in RandomDraws :
        docReq' = [keyword |-> randomKeywords[FloorRandom(r1, Len(randomKeywords)) + 1],
                   from |-> FloorRandom(r2, RandomFromRange),
                   size |-> RandomSearchSize]

\* lines 120-126: the document search is answered
RandomSearch ==
    /\ UNCHANGED sideVars
    /\ spc = "search"
    /\ \E ans \in DocAnswers :
        IF ~ans.ok \/ Len(OrEmpty(ans.list)) = 0
        THEN /\ spc' = "done"
             /\ sret' = <<>>
             /\ docReq' = NoDocReq
             /\ calls' = calls
             /\ UNCHANGED <<hpc, query, keywords, books, bi, ki, results, seenPids, caughtError,
                            hret, served>>
        ELSE /\ spc' = "inner"
             /\ sret' = sret
             /\ \E r3 \in RandomDraws :
                 CallHistorical(
                     OrEmpty(ans.list)[FloorRandom(r3, Len(OrEmpty(ans.list))) + 1].title,
                     ArrayValue(focusKw))
    /\ UNCHANGED postVars

\* line 126 with one item of the list returned, the first
RandomReturnOneItem ==
    /\ UNCHANGED sideVars
    /\ spc = "inner"
    /\ hpc = "done"
    /\ spc' = "done"
    /\ sret' = (IF Len(hret) = 0 THEN <<>> ELSE <<hret[1]>>)
    /\ HistoricalIdle
    /\ UNCHANGED <<docReq, calls>>
    /\ UNCHANGED postVars

\* line 126: searchHistoricalMaterials has returned
RandomReturn ==
    /\ UNCHANGED sideVars
    /\ spc = "inner"
    /\ hpc = "done"
    /\ spc' = "done"
    /\ sret' = hret
    /\ HistoricalIdle
    /\ UNCHANGED <<docReq, calls>>
    /\ UNCHANGED postVars

\* ------------------------------------------------------------------------
\* POST /api/chat: requests, the generation service, errors, responses
\* ------------------------------------------------------------------------
\* messages: "neko no kaidan", and one with the cue "nanika"
MsgPlain == <<"neko", "no", "kai", "dan">>
MsgCue == <<"nani", "ka", "kowa", "i", "hanashi">>
Messages == {MsgPlain, MsgCue}

CueRandom == <<"ra", "n", "da", "mu">>
CueSomething == <<"nani", "ka">>

RequestedModels == {Undefined, <<"gemini-1.5-pro">>}
ApiKeys == {Undefined, <<"key">>}

ExtractionModelName == <<"gemini-2.0-flash-lite">>
DefaultModelName == <<"gemini-2.0-flash">>

\* a || b
Or(a, b) == IF Falsy(a) THEN b ELSE a

\* errors: status (0 when the error has none) and message
TypeError == [status |-> 0, message |-> <<"T", "y", "p", "e", "E", "r", "r", "o", "r">>]
SyntaxError == [status |-> 0, message |-> <<"S", "y", "n", "t", "a", "x">>]
NoKeyError == [status |-> 0, message |-> <<"n", "o", " ", "k", "e", "y">>]

\* what a failing generateContent may throw
GenErrors ==
    {[status |-> 503, message |-> <<"[", "5", "0", "3", "]">>],
     [status |-> 504, message |-> <<"[", "5", "0", "4", "]">>],
     [status |-> 0, message |-> <<"[", "4", "2", "9", "]">>],
     [status |-> 429, message |-> <<"l", "i", "m", "i", "t">>],
     [status |-> 0, message |-> <<"q", "u", "o", "t", "a">>],
     [status |-> 500, message |-> <<"[", "5", "0", "0", "]">>],
     [status |-> 0, message |-> Undefined]}

\* e.message?.includes(x)
MessageIncludes(e, x) == e.message # Undefined /\ Includes(e.message, x)

\* line 51 with the status of the error inspected as well
isRetryableOrStatus429(e) ==
    \/ MessageIncludes(e, <<"5", "0", "3">>)
    \/ MessageIncludes(e, <<"5", "0", "4">>)
    \/ MessageIncludes(e, <<"4", "2", "9">>)
    \/ e.status = 429

\* line 51
isRetryable(e) ==
    \/ MessageIncludes(e, <<"5", "0", "3">>)
    \/ MessageIncludes(e, <<"5", "0", "4">>)
    \/ MessageIncludes(e, <<"4", "2", "9">>)

maxRetries == 2
BackoffUnit == 1500

\* the catch of POST (lines 126-141)
QuotaDetails == <<"quota details">>
DefaultDetails == <<"unexpected error">>

\* the catch answering with the fields of a success record next to the error
ErrorResponseMixed(e) ==
    [status |-> 500,
     body |-> [reply |-> <<>>, sources |-> <<>>,
               error |-> <<"Internal Server Error">>,
               details |-> Or(e.message, DefaultDetails)]]

\* the catch with the test of line 130 cut down to error.status === 429
ErrorResponseStatusOnly(e) ==
    IF e.status = 429
    THEN [status |-> 429,
          body |-> [error |-> <<"Quota Exceeded">>, details |-> QuotaDetails]]
    ELSE [status |-> 500,
          body |-> [error |-> <<"Internal Server Error">>,
                    details |-> Or(e.message, DefaultDetails)]]

\* the catch with the details of line 139 always the fixed text
ErrorResponseFixedDetails(e) ==
    IF \/ e.status = 429
       \/ MessageIncludes(e, <<"4", "2", "9">>)
       \/ MessageIncludes(e, <<"q", "u", "o", "t", "a">>)
    THEN [status |-> 429,
          body |-> [error |-> <<"Quota Exceeded">>, details |-> QuotaDetails]]
    ELSE [status |-> 500,
          body |-> [error |-> <<"Internal Server Error">>, details |-> DefaultDetails]]

\* lines 126-141: the response of the catch for the error e
ErrorResponse(e) ==
    IF \/ e.status = 429
       \/ MessageIncludes(e, <<"4", "2", "9">>)
       \/ MessageIncludes(e, <<"q", "u", "o", "t", "a">>)
    THEN [status |-> 429,
          body |-> [error |-> <<"Quota Exceeded">>, details |-> QuotaDetails]]
    ELSE [status |-> 500,
          body |-> [error |-> <<"Internal Server Error">>,
                    details |-> Or(e.message, DefaultDetails)]]

\* texts the generation service may return for the extraction prompt: a
\* body, maybe inside a code fence; the body is no JSON, or the JSON of
\* null, of a number, or of an object with some of the three fields
QueryParsed == <<"o", "w", "a", "r", "i", " ", "kai", "dan">>

JsonNull == [kind |-> "null", query |-> Undefined,
             focusKeywords |-> StringValue(Undefined), isRandom |-> FALSE]
JsonNumber == [kind |-> "number", query |-> Undefined,
               focusKeywords |-> StringValue(Undefined), isRandom |-> FALSE]
JsonObject(q, f, r) == [kind |-> "object", query |-> q, focusKeywords |-> f, isRandom |-> r]
NotJson == [kind |-> "garbage", query |-> Undefined,
            focusKeywords |-> StringValue(Undefined), isRandom |-> FALSE]

ExtractionBodies ==
    {NotJson, JsonNull, JsonNumber,
     JsonObject(Undefined, ArrayValue(SubSeq(KeywordPool, 1, 1)), FALSE),
     JsonObject(QueryParsed, StringValue(<<"k", "1">>), FALSE)}
    \cup {JsonObject(QueryParsed, ArrayValue(SubSeq(KeywordPool, 1, n)), r) :
            n \in 1..MaxKw, r \in BOOLEAN}

ExtractionTexts == {[fenced |-> f, body |-> b] : f \in BOOLEAN, b \in ExtractionBodies}

\* .replace(/```json|```/g, '').trim(): the body without its fence
StripFence(text) == text.body

\* lines 64-71 with the fallback's focusKeywords written message, not [message]
ParseExtractionKeywordString(text, msg) ==
    IF StripFence(text).kind = "garbage"
    THEN [threw |-> FALSE,
          data |-> [query |-> msg, focusKeywords |-> StringValue(msg), isRandom |-> FALSE]]
    ELSE IF StripFence(text).kind = "null"
    THEN [threw |-> TRUE,
          data |-> [query |-> Undefined, focusKeywords |-> StringValue(Undefined),
                    isRandom |-> FALSE]]
    ELSE [threw |-> FALSE,
          data |-> [query |-> StripFence(text).query,
                    focusKeywords |-> StripFence(text).focusKeywords,
                    isRandom |-> StripFence(text).isRandom]]

\* lines 64-71: JSON.parse with its fallback, then the destructuring;
\* threw tells that the destructuring of null raised a TypeError
ParseExtraction(text, msg) ==
    IF StripFence(text).kind = "garbage"
    THEN [threw |-> FALSE,
          data |-> [query |-> msg, focusKeywords |-> ArrayValue(<<msg>>), isRandom |-> FALSE]]
    ELSE IF StripFence(text).kind = "null"
    THEN [threw |-> TRUE,
          data |-> [query |-> Undefined, focusKeywords |-> StringValue(Undefined),
                    isRandom |-> FALSE]]
    ELSE [threw |-> FALSE,
          data |-> [query |-> StripFence(text).query,
                    focusKeywords |-> StripFence(text).focusKeywords,
                    isRandom |-> StripFence(text).isRandom]]

ReplyTexts == {<<"reply 1">>, <<"reply 2">>}

\* apiKey before line 12 has run
NoKey == <<"unset">>

NoText == [kind |-> "none", query |-> Undefined,
           focusKeywords |-> StringValue(Undefined), isRandom |-> FALSE]
NoError == [status |-> -1, message |-> Undefined]

\* the outcome of one attempt: the text of the result, or the error thrown
Success(text) == [ok |-> TRUE, text |-> text, error |-> NoError]
Failure(e) == [ok |-> FALSE, text |-> Undefined, error |-> e]

NoData == [query |-> Undefined, focusKeywords |-> StringValue(Undefined), isRandom |-> FALSE]
NoPrompt == [kind |-> "none", message |-> Undefined, context |-> <<>>]

\* ------------------------------------------------------------------------
\* POST /api/chat: one action per await
\* ------------------------------------------------------------------------
Respond(r) ==
    /\ responses' = Append(responses, r)
    /\ ppc' = "done"
    /\ gpc' = "idle"
    /\ calls' = calls

\* e is thrown inside the try of POST: its catch answers (lines 126-141)
Throw(e) ==
    /\ error' = e
    /\ Respond(ErrorResponse(e))

\* generateContentWithRetry is entered: its first attempt is in flight
CallGenerate(targetModel, prompt) ==
    /\ genModel' = targetModel
    /\ genPrompt' = prompt
    /\ gpc' = "call"
    /\ attempt' = 0
    /\ waits' = <<>>
    /\ outcomes' = <<>>
    /\ calls' = Counted(1, 1, 0, 0)

\* lines 50-58 with the delay of line 54 written 1500 instead of 1500 * (i + 1)
CatchGenerateFixedDelay(e) ==
    /\ outcomes' = Append(outcomes, Failure(e))
    /\ IF attempt < maxRetries /\ isRetryable(e)
       THEN /\ gpc' = "backoff"
            /\ waits' = Append(waits, BackoffUnit)
            /\ calls' = Counted(0, 0, 1, 0)
            /\ UNCHANGED <<ppc, error, responses>>
       ELSE /\ Throw(e)
            /\ waits' = waits

\* lines 50-58 with the test of line 52 cut down to i < maxRetries
CatchGenerateRetryAll(e) ==
    /\ outcomes' = Append(outcomes, Failure(e))
    /\ IF attempt < maxRetries
       THEN /\ gpc' = "backoff"
            /\ waits' = Append(waits, BackoffUnit * (attempt + 1))
            /\ calls' = Counted(0, 0, 1, 0)
            /\ UNCHANGED <<ppc, error, responses>>
       ELSE /\ Throw(e)
            /\ waits' = waits

\* lines 50-58 with the test of line 52 written i <= maxRetries
CatchGenerateOneMore(e) ==
    /\ outcomes' = Append(outcomes, Failure(e))
    /\ IF attempt <= maxRetries /\ isRetryable(e)
       THEN /\ gpc' = "backoff"
            /\ waits' = Append(waits, BackoffUnit * (attempt + 1))
            /\ calls' = Counted(0, 0, 1, 0)
            /\ UNCHANGED <<ppc, error, responses>>
       ELSE /\ Throw(e)
            /\ waits' = waits

\* lines 50-58: an attempt has thrown e
CatchGenerate(e) ==
    /\ outcomes' = Append(outcomes, Failure(e))
    /\ IF attempt < maxRetries /\ isRetryable(e)
       THEN /\ gpc' = "backoff"
            /\ waits' = Append(waits, BackoffUnit * (attempt + 1))
            /\ calls' = Counted(0, 0, 1, 0)
            /\ UNCHANGED <<ppc, error, responses>>
       ELSE /\ Throw(e)
            /\ waits' = waits

ExtractionPrompt(msg) == [kind |-> "extraction", message |-> msg, context |-> <<>>]
FailPrompt(msg) == [kind |-> "fail", message |-> msg, context |-> <<>>]

\* lines 102-104 with the blocks numbered i instead of i + 1
materialsContextZeroBased(ms) ==
    [k \in 1..Len(ms) |->
        [index |-> k - 1, title |-> ms[k].title, page |-> ms[k].page,
         snippet |-> ms[k].snippet]]

\* lines 102-104: one numbered block per material
materialsContext(ms) ==
    [k \in 1..Len(ms) |->
        [index |-> k, title |-> ms[k].title, page |-> ms[k].page, snippet |-> ms[k].snippet]]

CompletionPrompt(msg, ms) ==
    [kind |-> "completion", message |-> msg, context |-> materialsContext(ms)]

\* lines 7-26 without the test of line 14
StartNoKeyCheck ==
    /\ UNCHANGED sideVars
    /\ ppc = "start"
    /\ \E bodyOk \in BOOLEAN, msg \in Messages, requestedModel \in RequestedModels,
          clientKey \in ApiKeys, envKey \in ApiKeys :
        IF ~bodyOk
        THEN /\ Throw(SyntaxError)
             /\ UNCHANGED <<message, apiKey, modelName, genModel, genPrompt, attempt, waits,
                            outcomes>>
        ELSE /\ message' = msg
             /\ apiKey' = Or(clientKey, envKey)
             /\ modelName' = Or(requestedModel, DefaultModelName)
             /\ CallGenerate(ExtractionModelName, ExtractionPrompt(msg))
             /\ ppc' = "extract"
             /\ UNCHANGED <<error, responses>>
    /\ UNCHANGED <<extractionText, extractionData, materials>>
    /\ UNCHANGED retrievalVars

\* lines 7-26: the body is read, the key chosen, the extraction call made
Start ==
    /\ UNCHANGED sideVars
    /\ ppc = "start"
    /\ \E bodyOk \in BOOLEAN, msg \in Messages, requestedModel \in RequestedModels,
          clientKey \in ApiKeys, envKey \in ApiKeys :
        IF ~bodyOk
        THEN /\ Throw(SyntaxError)
             /\ UNCHANGED <<message, apiKey, modelName, genModel, genPrompt, attempt, waits,
                            outcomes>>
        ELSE /\ message' = msg
             /\ apiKey' = Or(clientKey, envKey)
             /\ IF Falsy(Or(clientKey, envKey))
                THEN /\ Throw(NoKeyError)
                     /\ UNCHANGED <<modelName, genModel, genPrompt, attempt, waits, outcomes>>
                ELSE /\ modelName' = Or(requestedModel, DefaultModelName)
                     /\ CallGenerate(ExtractionModelName, ExtractionPrompt(msg))
                     /\ ppc' = "extract"
                     /\ UNCHANGED <<error, responses>>
    /\ UNCHANGED <<extractionText, extractionData, materials>>
    /\ UNCHANGED retrievalVars

\* line 54 with the loop of line 47 begun again once the timer has fired
BackoffStartsOver ==
    /\ UNCHANGED sideVars
    /\ gpc = "backoff"
    /\ gpc' = "call"
    /\ calls' = Counted(0, 1, 0, 0)
    /\ attempt' = 0
    /\ waits' = <<>>
    /\ outcomes' = <<>>
    /\ UNCHANGED <<ppc, message, apiKey, modelName, extractionText, extractionData,
                   materials, genModel, genPrompt, error, responses>>
    /\ UNCHANGED retrievalVars

\* line 54: the backoff timer fires and the next attempt is made
Backoff ==
    /\ UNCHANGED sideVars
    /\ gpc = "backoff"
    /\ gpc' = "call"
    /\ calls' = Counted(0, 1, 0, 0)
    /\ attempt' = attempt + 1
    /\ UNCHANGED <<ppc, message, apiKey, modelName, extractionText, extractionData,
                   materials, genModel, genPrompt, waits, outcomes, error, responses>>
    /\ UNCHANGED retrievalVars

\* line 75
\* line 75 without the two tests of the message
WantsRandomFlagOnly(data, msg) ==
    data.isRandom

\* line 75: the test that chooses the random retriever
WantsRandom(data, msg) ==
    data.isRandom \/ Includes(msg, CueRandom) \/ Includes(msg, CueSomething)

\* lines 62-78: an attempt of the extraction call is answered
ExtractionAttempt ==
    /\ UNCHANGED sideVars
    /\ ppc = "extract"
    /\ gpc = "call"
    /\ \/ \E e \in GenErrors :
            /\ CatchGenerate(e)
            /\ UNCHANGED <<extractionText, extractionData, attempt>>
            /\ UNCHANGED retrievalVars
       \/ \E text \in ExtractionTexts :
            LET parsed == ParseExtraction(text, message) IN
            /\ extractionText' = StripFence(text)
            /\ IF parsed.threw
               THEN /\ outcomes' = Append(outcomes, Success(text))
                    /\ Throw(TypeError)
                    /\ UNCHANGED <<extractionData, attempt, waits>>
                    /\ UNCHANGED retrievalVars
               ELSE /\ outcomes' = <<>>    \* the wrapped call is over
                    /\ extractionData' = parsed.data
                    /\ ppc' = "retrieve"
                    /\ gpc' = "idle"
                    /\ UNCHANGED <<attempt, waits, error, responses>>
                    /\ IF WantsRandom(parsed.data, message)
                       THEN /\ CallRandom
                            /\ UNCHANGED <<hpc, query, keywords, books, bi, ki, results,
                                           seenPids, caughtError, hret, served>>
                       ELSE /\ CallHistorical(parsed.data.query, parsed.data.focusKeywords)
                            /\ UNCHANGED <<spc, sret>>
    /\ UNCHANGED <<message, apiKey, modelName, materials, genModel, genPrompt>>

BroaderSuffix == <<" ", "ki", "dan", " ", "chin", "ji", " ", "jitsu", "roku">>

\* lines 88-118 without the test of line 90
CallReplyAlwaysCompose(ms) ==
    /\ CallGenerate(modelName, CompletionPrompt(message, ms))
    /\ ppc' = "compose"

\* lines 88-118 with both calls made on extractionModel
CallReplyLiteModel(ms) ==
    IF Len(ms) = 0
    THEN /\ CallGenerate(ExtractionModelName, FailPrompt(message))
         /\ ppc' = "apology"
    ELSE /\ CallGenerate(ExtractionModelName, CompletionPrompt(message, ms))
         /\ ppc' = "compose"

\* lines 88-118: the reply step is entered with the materials ms
CallReply(ms) ==
    IF Len(ms) = 0
    THEN /\ CallGenerate(modelName, FailPrompt(message))
         /\ ppc' = "apology"
    ELSE /\ CallGenerate(modelName, CompletionPrompt(message, ms))
         /\ ppc' = "compose"

\* lines 76-85: the first retrieval has returned
RetrieveReturn ==
    /\ UNCHANGED sideVars
    /\ ppc = "retrieve"
    /\ \/ /\ spc = "done"
          /\ materials' = sret
          /\ spc' = "idle"
          /\ sret' = <<>>
          /\ CallReply(sret)
          /\ UNCHANGED <<hpc, query, keywords, books, bi, ki, results, seenPids, caughtError,
                         hret, served,
                         docReq, error, responses>>
       \/ /\ spc = "idle"
          /\ hpc = "done"
          /\ materials' = hret
          /\ UNCHANGED <<spc, sret>>
          /\ IF Len(hret) # 0
             THEN /\ CallReply(hret)
                  /\ HistoricalIdle
                  /\ UNCHANGED <<docReq, error, responses>>
             ELSE IF extractionData.query = Undefined
             THEN /\ Throw(TypeError)   \* query.split on undefined
                  /\ HistoricalIdle
                  /\ UNCHANGED <<docReq, genModel, genPrompt, attempt, waits, outcomes>>
             ELSE /\ CallHistorical(FirstToken(extractionData.query) \o BroaderSuffix,
                                    extractionData.focusKeywords)
                  /\ ppc' = "broaden"
                  /\ UNCHANGED <<genModel, genPrompt, gpc, attempt, waits, outcomes, error,
                                 responses>>
    /\ UNCHANGED <<message, apiKey, modelName, extractionText, extractionData>>

\* line 84 without its await: the handler goes on at once
BroadenReturnEarly ==
    /\ UNCHANGED sideVars
    /\ ppc = "broaden"
    /\ materials' = hret
    /\ HistoricalIdle
    /\ CallReply(hret)
    /\ UNCHANGED <<spc, sret, docReq>>
    /\ UNCHANGED <<message, apiKey, modelName, extractionText, extractionData, error,
                   responses>>

\* line 84: the broadened retrieval has returned
BroadenReturn ==
    /\ UNCHANGED sideVars
    /\ ppc = "broaden"
    /\ hpc = "done"
    /\ materials' = hret
    /\ HistoricalIdle
    /\ CallReply(hret)
    /\ UNCHANGED <<spc, sret, docReq>>
    /\ UNCHANGED <<message, apiKey, modelName, extractionText, extractionData, error,
                   responses>>

\* lines 96-99: an attempt of the no-evidence call is answered
FailAttempt ==
    /\ UNCHANGED sideVars
    /\ ppc = "apology"
    /\ gpc = "call"
    /\ \/ \E e \in GenErrors : CatchGenerate(e)
       \/ \E text \in ReplyTexts :
            /\ outcomes' = Append(outcomes, Success(text))
            /\ Respond([status |-> 200, body |-> [reply |-> text, sources |-> <<>>]])
            /\ UNCHANGED <<waits, error>>
    /\ UNCHANGED <<message, apiKey, modelName, extractionText, extractionData, materials,
                   genModel, genPrompt, attempt>>
    /\ UNCHANGED retrievalVars

\* lines 118-124: an attempt of the completion call is answered
CompletionAttempt ==
    /\ UNCHANGED sideVars
    /\ ppc = "compose"
    /\ gpc = "call"
    /\ \/ \E e \in GenErrors : CatchGenerate(e)
       \/ \E text \in ReplyTexts :
            /\ outcomes' = Append(outcomes, Success(text))
            /\ Respond([status |-> 200, body |-> [reply |-> text, sources |-> materials]])
            /\ UNCHANGED <<waits, error>>
    /\ UNCHANGED <<message, apiKey, modelName, extractionText, extractionData, materials,
                   genModel, genPrompt, attempt>>
    /\ UNCHANGED retrievalVars

\* ------------------------------------------------------------------------
\* renderMessageContent (the chat page)
\* ------------------------------------------------------------------------
\* A reply is a sequence of lexemes: plain characters, the opening delimiter
\* <cite id="k"> of a marker (one lexeme for each k) and its closing delimiter.
CiteClose == "</cite>"

CiteOpen(k) ==
    CASE k = 0 -> "<cite id=\"0\">"
      [] k = 1 -> "<cite id=\"1\">"
      [] k = 2 -> "<cite id=\"2\">"
      [] k = 3 -> "<cite id=\"3\">"
      [] k = 4 -> "<cite id=\"4\">"
      [] OTHER -> "<cite id=\"5\">"

CiteIds == 0..MaxCiteId
CiteOpens == {CiteOpen(k) : k \in CiteIds}

\* parseInt(match[1]) for an opening delimiter
CiteIdOf(lexeme) == CHOOSE k \in CiteIds : CiteOpen(k) = lexeme

ContentLexemes == {"a", CiteClose} \cup CiteOpens

\* /<cite id="\d+">[\s\S]*?<\/cite>/ from position i on: the leftmost
\* opening delimiter that a closing delimiter follows, or 0
RECURSIVE MatchStart(_, _)
MatchStart(s, i) ==
    IF i > Len(s) THEN 0
    ELSE IF s[i] \in CiteOpens /\ IndexOfFrom(s, CiteClose, i + 1) > 0 THEN i
    ELSE MatchStart(s, i + 1)

\* the end of the match that starts at j: the first closing delimiter
MatchEnd(s, j) == IndexOfFrom(s, CiteClose, j + 1)

\* content.split(/(<cite id="\d+">[\s\S]*?<\/cite>)/g): gaps and markers
RECURSIVE SplitFrom(_, _)
SplitFrom(s, i) ==
    IF MatchStart(s, i) = 0 THEN <<SubSeq(s, i, Len(s))>>
    ELSE <<SubSeq(s, i, MatchStart(s, i) - 1),
           SubSeq(s, MatchStart(s, i), MatchEnd(s, MatchStart(s, i)))>>
         \o SplitFrom(s, MatchEnd(s, MatchStart(s, i)) + 1)

SplitCite(s) == SplitFrom(s, 1)

NoSource == [title |-> Undefined, pid |-> Undefined, page |-> Undefined,
             snippet |-> Undefined, link |-> Undefined]

TextNode(t) == [kind |-> "text", text |-> t, source |-> NoSource]
PopupNode(src, t) == [kind |-> "popup", text |-> t, source |-> src]

\* sources[id], NoSource standing for undefined
SourceAt(srcs, id) == IF id >= 0 /\ id < Len(srcs) THEN srcs[id + 1] ELSE NoSource

\* lines 526-533 with sources[id] read at parseInt(match[1]), not one less
RenderPartOffByOne(part, srcs) ==
    IF MatchStart(part, 1) = 0 THEN TextNode(part)
    ELSE IF SourceAt(srcs, CiteIdOf(part[MatchStart(part, 1)])) # NoSource
         THEN PopupNode(SourceAt(srcs, CiteIdOf(part[MatchStart(part, 1)])),
                        SubSeq(part, MatchStart(part, 1) + 1, MatchEnd(part, MatchStart(part, 1)) - 1))
    ELSE TextNode(part)

\* lines 526-533: one part
RenderPart(part, srcs) ==
    IF MatchStart(part, 1) = 0 THEN TextNode(part)
    ELSE IF SourceAt(srcs, CiteIdOf(part[MatchStart(part, 1)]) - 1) # NoSource
         THEN PopupNode(SourceAt(srcs, CiteIdOf(part[MatchStart(part, 1)]) - 1),
                        SubSeq(part, MatchStart(part, 1) + 1, MatchEnd(part, MatchStart(part, 1)) - 1))
    ELSE TextNode(part)

\* lines 521-535
renderMessageContent(c, srcs) ==
    IF ~srcs.defined \/ Len(srcs.val) = 0 THEN <<TextNode(c)>>
    ELSE [k \in 1..Len(SplitCite(c)) |-> RenderPart(SplitCite(c)[k], srcs.val)]

RenderSource(k) ==
    [title |-> <<"T", "1">>, pid |-> <<"1">>,
     page |-> IF k = 1 THEN <<"1">> ELSE IF k = 2 THEN <<"2">> ELSE <<"3">>,
     snippet |-> <<"f", "o", "x", " ", "t", "a", "l", "e">>,
     link |-> LinkBase \o <<"1">> \o <<"/">> \o
              (IF k = 1 THEN <<"1">> ELSE IF k = 2 THEN <<"2">> ELSE <<"3">>)]

SourceLists == {NoList} \cup {List([k \in 1..n |-> RenderSource(k)]) : n \in 0..MaxSources}

\* ------------------------------------------------------------------------
\* The chat page (ndl-api.ts lines 282-481)
\* ------------------------------------------------------------------------
Null == <<"null">>

\* Date.now().toString() at the n-th creation of a thread: the clock has
\* moved on between two creations
ThreadIdOf(n) == <<<<"1", "2", "3", "4", "5", "6", "7", "8", "9">>[n]>>

WelcomeMessage == [role |-> "assistant", content |-> <<"welcome">>]

\* lines 374-384
NewThread(id) == [id |-> id, title |-> <<"new talk">>, messages |-> <<WelcomeMessage>>]

\* a thread of an earlier visit, with one exchange in it
SavedThread(id) ==
    [id |-> id, title |-> <<"o", "l", "d">>,
     messages |-> <<WelcomeMessage, [role |-> "user", content |-> <<"o", "l", "d">>],
                    [role |-> "assistant", content |-> <<"r">>, sources |-> NoList]>>]

\* what the input field may hold
InputTexts == {<<>>, <<" ", "\n">>, <<"h", "i", " ">>}

LimitMessage == [role |-> "system", content |-> <<"limit reached">>]
NetworkMessage == [role |-> "system", content |-> <<"network problem">>]
SorryPrefix == <<"sorry: ">>
DefaultFailure == <<"could not get">>

\* what await fetch and await response.json() give: they throw (no network,
\* a body that is no JSON), or a status and the fields of the body
FetchOutcomes ==
    {[thrown |-> TRUE, status |-> 0, reply |-> Undefined, sources |-> NoList,
      details |-> Undefined],
     [thrown |-> FALSE, status |-> 200, reply |-> <<"r">>, sources |-> List(<<>>),
      details |-> Undefined],
     [thrown |-> FALSE, status |-> 200, reply |-> <<>>, sources |-> List(<<>>),
      details |-> Undefined],
     [thrown |-> FALSE, status |-> 429, reply |-> Undefined, sources |-> NoList,
      details |-> QuotaDetails],
     [thrown |-> FALSE, status |-> 500, reply |-> Undefined, sources |-> NoList,
      details |-> DefaultDetails],
     [thrown |-> FALSE, status |-> 500, reply |-> Undefined, sources |-> NoList,
      details |-> Undefined]}

\* String.prototype.slice(0, n)
SliceTo(text, n) == SubSeq(text, 1, IF Len(text) < n THEN Len(text) ELSE n)

\* prev.map(t => t.id === id ? {...t, messages: [...t.messages, msg]} : t)
AppendTo(ts, id, msg) ==
    [k \in 1..Len(ts) |->
        IF ts[k].id = id THEN [ts[k] EXCEPT !.messages = Append(@, msg)] ELSE ts[k]]

\* lines 456-471: the message made of the body, and the title
AnswerTo(ts, id, userMessage, out) ==
    [k \in 1..Len(ts) |->
        IF ts[k].id = id
        THEN [ts[k] EXCEPT
                !.title = IF Len(ts[k].messages) <= 2 THEN SliceTo(userMessage, 15) ELSE @,
                !.messages = Append(@,
                    IF ~Falsy(out.reply)
                    THEN [role |-> "assistant", content |-> out.reply,
                          sources |-> out.sources]
                    ELSE [role |-> "system",
                          content |-> SorryPrefix \o Or(out.details, DefaultFailure)])]
        ELSE ts[k]]

\* line 584: every render sorts threads in place, the latest updatedAt
\* first; here the thread id has just been given updatedAt: Date.now(), the
\* latest of all, and the list was sorted before
SortedAfterUpdateOf(ts, id) ==
    SelectSeq(ts, LAMBDA t : t.id = id) \o SelectSeq(ts, LAMBDA t : t.id # id)

\* lines 430-477: what the continuation of handleSubmit makes of threads
\* for the call of the thread id; the catch leaves updatedAt as it is
ThreadsAfter(ts, id, userMessage, out) ==
    IF out.thrown THEN AppendTo(ts, id, NetworkMessage)
    ELSE IF out.status = 429 THEN SortedAfterUpdateOf(AppendTo(ts, id, LimitMessage), id)
    ELSE SortedAfterUpdateOf(AnswerTo(ts, id, userMessage, out), id)

\* where an answer for the thread id goes
DeliveryOf(id) ==
    IF \A k \in 1..Len(threads) : threads[k].id # id THEN "dropped"
    ELSE IF id = activeThreadId THEN "active"
    ELSE "other"

\* the page has been constructed (lines 282-294)
ChatIdle ==
    /\ threads = <<>>
    /\ activeThreadId = Null
    /\ input = <<>>
    /\ isLoading = FALSE
    /\ deleteId = Null
    /\ inflight = <<>>
    /\ loaded = FALSE
    /\ created = 0
    /\ uiLog = [submit |-> "none", delivery |-> "none"]

\* what the actions of the page leave alone
pageFrame == <<serverVars, renderVars, cleanVars, worldVars, calls>>

\* lines 300-331: nothing is saved and a thread is created, or the saved
\* text is no JSON, or it is a list of threads (here none or one)
LoadThreads ==
    /\ UNCHANGED pageFrame
    /\ ~loaded
    /\ loaded' = TRUE
    /\ \/ /\ created < MaxThreads
          /\ threads' = <<NewThread(ThreadIdOf(created + 1))>> \o threads
          /\ activeThreadId' = ThreadIdOf(created + 1)
          /\ created' = created + 1
       \/ UNCHANGED <<threads, activeThreadId, created>>
       \/ /\ threads' = <<>>
          /\ UNCHANGED <<activeThreadId, created>>
       \/ /\ created < MaxThreads
          /\ threads' = <<SavedThread(ThreadIdOf(created + 1))>>
          /\ activeThreadId' = ThreadIdOf(created + 1)
          /\ created' = created + 1
    /\ UNCHANGED <<input, isLoading, deleteId, inflight, uiLog>>

\* lines 373-389
createNewThread ==
    /\ UNCHANGED pageFrame
    /\ created < MaxThreads
    /\ threads' = <<NewThread(ThreadIdOf(created + 1))>> \o threads
    /\ activeThreadId' = ThreadIdOf(created + 1)
    /\ created' = created + 1
    /\ UNCHANGED <<input, isLoading, deleteId, inflight, loaded, uiLog>>

\* line 587 (and line 484): a thread of the list is selected
SelectThread ==
    /\ UNCHANGED pageFrame
    /\ \E k \in 1..Len(threads) : activeThreadId' = threads[k].id
    /\ UNCHANGED <<threads, input, isLoading, deleteId, inflight, loaded, created, uiLog>>

\* lines 397-400
confirmDelete ==
    /\ UNCHANGED pageFrame
    /\ \E k \in 1..Len(threads) : deleteId' = threads[k].id
    /\ UNCHANGED <<threads, activeThreadId, input, isLoading, inflight, loaded, created, uiLog>>

\* line 642
CancelDelete ==
    /\ UNCHANGED pageFrame
    /\ deleteId # Null
    /\ deleteId' = Null
    /\ UNCHANGED <<threads, activeThreadId, input, isLoading, inflight, loaded, created, uiLog>>

\* lines 402-412
executeDelete ==
    /\ UNCHANGED pageFrame
    /\ deleteId # Null
    /\ LET filtered == SelectSeq(threads, LAMBDA t : t.id # deleteId)
       IN  /\ threads' = filtered
           /\ activeThreadId' =
                (IF activeThreadId = deleteId
                 THEN (IF Len(filtered) > 0 THEN filtered[1].id ELSE Null)
                 ELSE activeThreadId)
    /\ deleteId' = Null
    /\ UNCHANGED <<input, isLoading, inflight, loaded, created, uiLog>>

\* line 819; the field is disabled while isLoading is true (line 822)
ChangeInput ==
    /\ UNCHANGED pageFrame
    /\ ~isLoading
    /\ \E text \in InputTexts : input' = text
    /\ UNCHANGED <<threads, activeThreadId, isLoading, deleteId, inflight, loaded, created, uiLog>>

\* the messages of all the threads of the list
RECURSIVE MessagesIn(_)
MessagesIn(ts) == IF ts = <<>> THEN 0 ELSE Len(Head(ts).messages) + MessagesIn(Tail(ts))

\* line 416: the test that ends handleSubmit at once
SubmitIgnored == Trim(input) = <<>> \/ isLoading \/ activeThreadId = Null

\* lines 414-438: handleSubmit up to its await of fetch
handleSubmit ==
    /\ UNCHANGED pageFrame
    /\ IF SubmitIgnored
       THEN /\ uiLog' = [uiLog EXCEPT !.submit = "ignored"]
            /\ UNCHANGED <<threads, input, isLoading, inflight>>
       ELSE /\ MessagesIn(threads) + 2 <= MaxMessages
            /\ input' = <<>>
            /\ threads' = SortedAfterUpdateOf(
                            AppendTo(threads, activeThreadId,
                                     [role |-> "user", content |-> input]),
                            activeThreadId)
            /\ isLoading' = TRUE
            /\ inflight' = Append(inflight, [thread |-> activeThreadId, userMessage |-> input])
            /\ uiLog' = [uiLog EXCEPT !.submit = "sent"]
    /\ UNCHANGED <<activeThreadId, deleteId, loaded, created>>

\* the continuation of the call r of handleSubmit, answered with out: the
\* message goes to the thread id, isLoading becomes loading
Continue(r, out, id, loading) ==
    /\ threads' = ThreadsAfter(threads, id, r.userMessage, out)
    /\ isLoading' = loading
    /\ uiLog' = [uiLog EXCEPT !.delivery = DeliveryOf(r.thread)]

\* lines 439-480 with the return of line 453 leaving the function before
\* its finally block
AfterFetchReturnSkipsFinally ==
    /\ UNCHANGED pageFrame
    /\ \E i \in 1..Len(inflight), out \in FetchOutcomes :
        /\ Continue(inflight[i], out, inflight[i].thread,
                    ~out.thrown /\ out.status = 429)
        /\ inflight' = SubSeq(inflight, 1, i - 1) \o SubSeq(inflight, i + 1, Len(inflight))
    /\ UNCHANGED <<activeThreadId, input, deleteId, loaded, created>>

\* lines 439-480 with activeThreadId read when the answer arrives
AfterFetchIntoActiveThread ==
    /\ UNCHANGED pageFrame
    /\ \E i \in 1..Len(inflight), out \in FetchOutcomes :
        /\ Continue(inflight[i], out, activeThreadId, FALSE)
        /\ inflight' = SubSeq(inflight, 1, i - 1) \o SubSeq(inflight, i + 1, Len(inflight))
    /\ UNCHANGED <<activeThreadId, input, deleteId, loaded, created>>

\* lines 439-480: fetch is answered and handleSubmit goes on to its end
AfterFetch ==
    /\ UNCHANGED pageFrame
    /\ \E i \in 1..Len(inflight), out \in FetchOutcomes :
        /\ Continue(inflight[i], out, inflight[i].thread, FALSE)
        /\ inflight' = SubSeq(inflight, 1, i - 1) \o SubSeq(inflight, i + 1, Len(inflight))
    /\ UNCHANGED <<activeThreadId, input, deleteId, loaded, created>>

\* the locals of a request that has not begun
NoFrame ==
    [hpc |-> "idle", query |-> Undefined, keywords |-> <<>>, books |-> <<>>, bi |-> 0,
     ki |-> 0, results |-> <<>>, seenPids |-> {}, caughtError |-> "none", hret |-> <<>>,
     served |-> NoneServed, spc |-> "idle", sret |-> <<>>, docReq |-> NoDocReq, ppc |-> "idle",
     message |-> Undefined, apiKey |-> NoKey, modelName |-> Undefined,
     extractionText |-> NoText, extractionData |-> NoData, materials |-> <<>>,
     genModel |-> Undefined, genPrompt |-> NoPrompt, gpc |-> "idle", attempt |-> 0,
     waits |-> <<>>, outcomes |-> <<>>, error |-> NoError, responses |-> <<>>]

ServerIdle ==
    /\ suspended = NoFrame
    /\ calls = NoCount
    /\ catalogue = [books |-> RequestBooks, size |-> MaxRequestBooks]
    /\ hpc = "idle"
    /\ query = Undefined
    /\ keywords = <<>>
    /\ books = <<>>
    /\ bi = 0
    /\ ki = 0
    /\ results = <<>>
    /\ seenPids = {}
    /\ caughtError = "none"
    /\ hret = <<>>
    /\ served = NoneServed
    /\ spc = "idle"
    /\ sret = <<>>
    /\ docReq = NoDocReq
    /\ ppc = "idle"
    /\ message = Undefined
    /\ apiKey = NoKey
    /\ modelName = Undefined
    /\ extractionText = NoText
    /\ extractionData = NoData
    /\ materials = <<>>
    /\ genModel = Undefined
    /\ genPrompt = NoPrompt
    /\ gpc = "idle"
    /\ attempt = 0
    /\ waits = <<>>
    /\ outcomes = <<>>
    /\ error = NoError
    /\ responses = <<>>

CleanIdle ==
    /\ cpc = "idle"
    /\ ctext = <<>>
    /\ cleaned = <<>>
    /\ recleaned = <<>>

RenderIdle ==
    /\ rpc = "idle"
    /\ content = <<>>
    /\ sources = NoList
    /\ rendered = <<>>

InitRender ==
    /\ ServerIdle
    /\ CleanIdle
    /\ ChatIdle
    /\ rpc = "call"
    /\ content \in SeqsUpTo(ContentLexemes, MaxContent)
    /\ sources \in SourceLists
    /\ rendered = <<>>

RenderMessage ==
    /\ rpc = "call"
    /\ rpc' = "done"
    /\ rendered' = renderMessageContent(content, sources)
    /\ UNCHANGED <<content, sources>>
    /\ UNCHANGED serverVars
    /\ UNCHANGED <<cleanVars, worldVars, calls, chatVars>>

NextRender == RenderMessage

SpecRender == InitRender /\ [][NextRender]_vars

\* ------------------------------------------------------------------------
\* cleanSnippet alone, applied to a text and then to its own result
\* ------------------------------------------------------------------------
\* pieces the input texts are made of: an emphasis tag and its halves, the
\* slash entity, white space, a letter
CleanFragments ==
    { <<"<">>, <<"<", "e", "m", ">">>, <<"e", "m", ">">>, <<"<", "/", "e", "m", ">">>,
      <<"&", "#", "x", "2", "F", ";">>, <<" ">>, <<"\n">>, <<"a">> }

RECURSIVE Flatten(_)
Flatten(ss) == IF ss = <<>> THEN <<>> ELSE Head(ss) \o Flatten(Tail(ss))

\* the texts given to cleanSnippet: undefined, or up to MaxChunks pieces
CleanInputs == {Undefined} \cup {Flatten(ss) : ss \in SeqsUpTo(CleanFragments, MaxChunks)}

InitClean ==
    /\ ServerIdle
    /\ RenderIdle
    /\ ChatIdle
    /\ cpc = "call"
    /\ ctext \in CleanInputs
    /\ cleaned = <<>>
    /\ recleaned = <<>>

\* cleanSnippet(text)
CleanOnce ==
    /\ cpc = "call"
    /\ cpc' = "once"
    /\ cleaned' = cleanSnippet(ctext)
    /\ UNCHANGED <<ctext, recleaned>>
    /\ UNCHANGED <<serverVars, renderVars, worldVars, calls, chatVars>>

\* cleanSnippet(cleanSnippet(text))
CleanAgain ==
    /\ cpc = "once"
    /\ cpc' = "twice"
    /\ recleaned' = cleanSnippet(cleaned)
    /\ UNCHANGED <<ctext, cleaned>>
    /\ UNCHANGED <<serverVars, renderVars, worldVars, calls, chatVars>>

NextClean ==
    \/ CleanOnce
    \/ CleanAgain

SpecClean == InitClean /\ [][NextClean]_vars

\* ------------------------------------------------------------------------
\* The retriever on its own: any call of its two operations
\* ------------------------------------------------------------------------
QueryInputs == {Undefined, QueryParsed}

FocusInputs ==
    {ArrayValue(SubSeq(KeywordPool, 1, n)) : n \in 0..MaxKw}
    \cup {StringValue(Undefined), StringValue(<<"k", "1">>)}

PostIdle ==
    /\ ppc = "idle"
    /\ message = Undefined
    /\ apiKey = NoKey
    /\ modelName = Undefined
    /\ extractionText = NoText
    /\ extractionData = NoData
    /\ materials = <<>>
    /\ genModel = Undefined
    /\ genPrompt = NoPrompt
    /\ gpc = "idle"
    /\ attempt = 0
    /\ waits = <<>>
    /\ outcomes = <<>>
    /\ error = NoError
    /\ responses = <<>>

InitRetrieve ==
    /\ PostIdle
    /\ suspended = NoFrame
    /\ calls = NoCount
    /\ RenderIdle
    /\ CleanIdle
    /\ ChatIdle
    /\ books = <<>>
    /\ bi = 0
    /\ ki = 0
    /\ results = <<>>
    /\ seenPids = {}
    /\ caughtError = "none"
    /\ hret = <<>>
    /\ served = NoneServed
    /\ sret = <<>>
    /\ \/ /\ hpc = "primary"
          /\ spc = "idle"
          /\ catalogue = [books |-> BookUniverse, size |-> MaxBooks]
          /\ query \in QueryInputs
          /\ \E f \in FocusInputs : keywords = KeywordsOf(f)
          /\ query = Undefined => Len(keywords) = 1   \* without a query: one keyword
          /\ docReq = [keyword |-> query, from |-> -1, size |-> BookSearchSize]
       \/ /\ hpc = "idle"
          /\ spc = "search"
          /\ catalogue = [books |-> RequestBooks, size |-> MaxRequestBooks + 1]
          /\ query = Undefined
          /\ keywords = <<>>
          /\ \E r1 \in RandomDraws, r2 \in RandomDraws :
              docReq = [keyword |-> randomKeywords[FloorRandom(r1, Len(randomKeywords)) + 1],
                        from |-> FloorRandom(r2, RandomFromRange),
                        size |-> RandomSearchSize]

NextRetrieve ==
    \/ PrimarySearch
    \/ LoosenedSearch
    \/ PageSearch
    \/ RandomSearch
    \/ RandomReturn

SpecRetrieve == InitRetrieve /\ [][NextRetrieve]_vars

\* ------------------------------------------------------------------------
\* One request to POST /api/chat
\* ------------------------------------------------------------------------
\* a request has arrived and nothing of the handler has run
NewRequest ==
    /\ RenderIdle
    /\ CleanIdle
    /\ ChatIdle
    /\ hpc = "idle"
    /\ query = Undefined
    /\ keywords = <<>>
    /\ books = <<>>
    /\ bi = 0
    /\ ki = 0
    /\ results = <<>>
    /\ seenPids = {}
    /\ caughtError = "none"
    /\ hret = <<>>
    /\ served = NoneServed
    /\ spc = "idle"
    /\ sret = <<>>
    /\ docReq = NoDocReq
    /\ ppc = "start"
    /\ message = Undefined
    /\ apiKey = NoKey
    /\ modelName = Undefined
    /\ extractionText = NoText
    /\ extractionData = NoData
    /\ materials = <<>>
    /\ genModel = Undefined
    /\ genPrompt = NoPrompt
    /\ gpc = "idle"
    /\ attempt = 0
    /\ waits = <<>>
    /\ outcomes = <<>>
    /\ error = NoError
    /\ responses = <<>>

Init ==
    /\ NewRequest
    /\ suspended = NoFrame
    /\ calls = NoCount
    /\ catalogue = [books |-> RequestBooks, size |-> MaxRequestBooks]

Next ==
    \/ Start
    \/ Backoff
    \/ ExtractionAttempt
    \/ PrimarySearch
    \/ LoosenedSearch
    \/ PageSearch
    \/ RandomSearch
    \/ RandomReturn
    \/ RetrieveReturn
    \/ BroadenReturn
    \/ FailAttempt
    \/ CompletionAttempt

Spec == Init /\ [][Next]_vars

\* The same request with fewer values where the value has no part in what
\* the handler does next: the default model, one reply text, and a 503 or a
\* 500 when the generation service fails.
LiveScenario ==
    /\ modelName \in {Undefined, DefaultModelName}
    /\ \A k \in 1..Len(outcomes) :
           IF ~outcomes[k].ok THEN outcomes[k].error.status \in {503, 500}
           ELSE genPrompt.kind = "extraction" \/ outcomes[k].text = <<"reply 1">>

NextLive ==
    \/ Start /\ LiveScenario'
    \/ Backoff
    \/ ExtractionAttempt /\ LiveScenario'
    \/ PrimarySearch
    \/ LoosenedSearch
    \/ PageSearch
    \/ RandomSearch
    \/ RandomReturn
    \/ RetrieveReturn
    \/ BroadenReturn
    \/ FailAttempt /\ LiveScenario'
    \/ CompletionAttempt /\ LiveScenario'

\* the same request with its calls of the services counted
InitCount ==
    /\ NewRequest
    /\ suspended = NoFrame
    /\ catalogue = [books |-> RequestBooks, size |-> MaxRequestBooks]
    /\ calls = [NoCount EXCEPT !.on = TRUE]

SpecCount == InitCount /\ [][NextLive]_vars

\* every call of a service is answered or fails, and every timer fires: a
\* request that waits for one of them goes on
SpecLive == Init /\ [][NextLive]_vars /\ WF_vars(NextLive)

\* ------------------------------------------------------------------------
\* One request for "neko no kaidan" against an endpoint that answers lists
\* of up to MaxBooks documents
\* ------------------------------------------------------------------------
\* the generation service may fail with a 503; its texts are the intent
\* below and one reply
WideIntent ==
    JsonObject(QueryParsed, ArrayValue(SubSeq(KeywordPool, 1, MaxKw)), FALSE)

WideScenario ==
    /\ message \in {Undefined, MsgPlain}
    /\ modelName \in {Undefined, DefaultModelName}
    /\ extractionText \in {NoText, WideIntent}
    /\ error \in {NoError} \cup {e \in GenErrors : e.status = 503}
    /\ \A k \in 1..Len(outcomes) :
           IF outcomes[k].ok THEN outcomes[k].text = <<"reply 1">>
           ELSE outcomes[k].error.status = 503

\* the endpoint holds the three documents whose excerpts are long enough
InitWide ==
    /\ NewRequest
    /\ suspended = NoFrame
    /\ calls = NoCount
    /\ catalogue = [books |-> {Book1, Book2, Book3}, size |-> MaxBooks]

NextWide ==
    \/ Start /\ WideScenario'
    \/ Backoff
    \/ ExtractionAttempt /\ WideScenario'
    \/ PrimarySearch
    \/ LoosenedSearch
    \/ PageSearch
    \/ RetrieveReturn
    \/ BroadenReturn
    \/ FailAttempt /\ WideScenario'
    \/ CompletionAttempt /\ WideScenario'

SpecWide == InitWide /\ [][NextWide]_vars

\* ------------------------------------------------------------------------
\* Two requests in flight at once
\* ------------------------------------------------------------------------
\* Every variable of POST and of the functions it calls is a const or let
\* of the call (part_001 lines 5-26, ndl-api.ts lines 19 and 42-43); the
\* module scope holds constants only. A request that waits at an await keeps
\* its locals, and the event loop runs the other request from the await it
\* waits at.
Frame ==
    [hpc |-> hpc, query |-> query, keywords |-> keywords, books |-> books, bi |-> bi,
     ki |-> ki, results |-> results, seenPids |-> seenPids, caughtError |-> caughtError,
     hret |-> hret, served |-> served, spc |-> spc, sret |-> sret, docReq |-> docReq,
     ppc |-> ppc, message |-> message, apiKey |-> apiKey, modelName |-> modelName,
     extractionText |-> extractionText, extractionData |-> extractionData,
     materials |-> materials, genModel |-> genModel, genPrompt |-> genPrompt,
     gpc |-> gpc, attempt |-> attempt, waits |-> waits, outcomes |-> outcomes,
     error |-> error, responses |-> responses]

\* the locals of f are the current ones
Resume(f) ==
    /\ hpc' = f.hpc
    /\ query' = f.query
    /\ keywords' = f.keywords
    /\ books' = f.books
    /\ bi' = f.bi
    /\ ki' = f.ki
    /\ results' = f.results
    /\ seenPids' = f.seenPids
    /\ caughtError' = f.caughtError
    /\ hret' = f.hret
    /\ served' = f.served
    /\ spc' = f.spc
    /\ sret' = f.sret
    /\ docReq' = f.docReq
    /\ ppc' = f.ppc
    /\ message' = f.message
    /\ apiKey' = f.apiKey
    /\ modelName' = f.modelName
    /\ extractionText' = f.extractionText
    /\ extractionData' = f.extractionData
    /\ materials' = f.materials
    /\ genModel' = f.genModel
    /\ genPrompt' = f.genPrompt
    /\ gpc' = f.gpc
    /\ attempt' = f.attempt
    /\ waits' = f.waits
    /\ outcomes' = f.outcomes
    /\ error' = f.error
    /\ responses' = f.responses

\* the two requests with seenPids declared in the module scope: the set is
\* not part of what a request keeps while it waits
SwitchSharedSeenPids ==
    /\ suspended.ppc # "done"
    /\ Resume([suspended EXCEPT !.seenPids = seenPids])
    /\ suspended' = Frame
    /\ UNCHANGED <<renderVars, cleanVars, catalogue, calls, chatVars>>

\* the running request waits at its await and the other request, which has
\* not answered yet, goes on from the await it waits at
Switch ==
    /\ suspended.ppc # "done"
    /\ Resume(suspended)
    /\ suspended' = Frame
    /\ UNCHANGED <<renderVars, cleanVars, catalogue, calls, chatVars>>

\* the requests are for "neko no kaidan"; the generation service answers
\* the intent with one keyword, one reply, or a 503
PairIntent == JsonObject(QueryParsed, ArrayValue(SubSeq(KeywordPool, 1, 1)), FALSE)

PairScenario ==
    /\ message \in {Undefined, MsgPlain}
    /\ modelName \in {Undefined, DefaultModelName}
    /\ extractionText \in {NoText, PairIntent}
    /\ error \in {NoError} \cup {e \in GenErrors : e.status = 503}
    /\ \A k \in 1..Len(outcomes) :
           IF outcomes[k].ok THEN outcomes[k].text = <<"reply 1">>
           ELSE outcomes[k].error.status = 503

\* two requests have arrived
InitPair ==
    /\ NewRequest
    /\ calls = NoCount
    /\ suspended = [NoFrame EXCEPT !.ppc = "start"]
    /\ catalogue = [books |-> RequestBooks, size |-> MaxRequestBooks]

NextPair ==
    \/ Start /\ PairScenario'
    \/ Backoff
    \/ ExtractionAttempt /\ PairScenario'
    \/ PrimarySearch
    \/ LoosenedSearch
    \/ PageSearch
    \/ RetrieveReturn
    \/ BroadenReturn
    \/ FailAttempt /\ PairScenario'
    \/ CompletionAttempt /\ PairScenario'
    \/ Switch

SpecPair == InitPair /\ [][NextPair]_vars

\* ------------------------------------------------------------------------
\* Properties of the retriever (checked under SpecRetrieve)
\* ------------------------------------------------------------------------
\* C1: every list searchHistoricalMaterials returns has at most 10 items,
\* whatever the candidate documents, their highlights and the passage
\* answers of at most PageSize passages.
C1_AtMostTenItems == hpc = "done" => Len(hret) <= OuterCap

\* C9: every item of every list returned by searchHistoricalMaterials or
\* searchRandomMaterial has a normalised snippet longer than 5 characters.
C9_SnippetsLongerThanFive ==
    /\ hpc = "done" => \A k \in 1..Len(hret) : Len(hret[k].snippet) > 5
    /\ spc = "done" => \A k \in 1..Len(sret) : Len(sret[k].snippet) > 5

\* C9 witness: a call has returned a non-empty list after collecting an
\* item whose normalised snippet has at most 5 characters.
C9_ShortItemDropped ==
    /\ hpc = "done"
    /\ hret # <<>>
    /\ \E k \in 1..Len(results) : Len(results[k].snippet) <= 5

\* ------------------------------------------------------------------------
\* Properties of the citation renderer (checked under SpecRender)
\* ------------------------------------------------------------------------
\* the parts of a split reply: gaps at the odd positions, markers at the even
IsMarkerPart(k) == k % 2 = 0

\* the 1-based index a marker carries, and the text between its delimiters
MarkerIndex(part) == CiteIdOf(part[1])
MarkerInner(part) == SubSeq(part, 2, Len(part) - 1)

RenderedWithSources == rpc = "done" /\ sources.defined /\ Len(sources.val) > 0

\* C3: against a non-empty sources list, a marker whose index is outside
\* 1..len(sources) is rendered as its inner text only, with no source
\* attached and without its delimiters.
C3_OutOfRangeShowsInnerText ==
    RenderedWithSources =>
        \A k \in 1..Len(SplitCite(content)) :
            (IsMarkerPart(k) /\ MarkerIndex(SplitCite(content)[k]) \notin 1..Len(sources.val))
                => rendered[k] = TextNode(MarkerInner(SplitCite(content)[k]))

\* C4: against a non-empty sources list, a marker with index k in
\* 1..len(sources) is rendered as a link to sources[k-1] around its inner
\* text, every link refers to an item of that sources list, and the text
\* outside the markers is passed through unchanged.
C4_InRangeBoundToItsSource ==
    RenderedWithSources =>
        /\ Len(rendered) = Len(SplitCite(content))
        /\ \A k \in 1..Len(SplitCite(content)) :
            /\ (IsMarkerPart(k) /\ MarkerIndex(SplitCite(content)[k]) \in 1..Len(sources.val))
                  => rendered[k] = PopupNode(sources.val[MarkerIndex(SplitCite(content)[k])],
                                             MarkerInner(SplitCite(content)[k]))
            /\ ~IsMarkerPart(k) => rendered[k] = TextNode(SplitCite(content)[k])
            /\ rendered[k].kind = "popup"
                  => \E j \in 1..Len(sources.val) : rendered[k].source = sources.val[j]

\* C4 witness: a reply with text before a marker of index 2 has been
\* rendered against two sources.
C4_SecondSourceLinked ==
    /\ RenderedWithSources
    /\ Len(sources.val) = 2
    /\ \E k \in 1..Len(rendered) :
        /\ rendered[k].kind = "popup"
        /\ rendered[k].source = sources.val[2]
        /\ rendered[k].text # <<>>
    /\ rendered[1].kind = "text"
    /\ rendered[1].text # <<>>

\* ------------------------------------------------------------------------
\* Properties of a request (checked under Spec)
\* ------------------------------------------------------------------------
Responded == ppc = "done" /\ responses # <<>>
LastResponse == responses[Len(responses)]
IsSuccessRecord(b) == DOMAIN b = {"reply", "sources"}
IsErrorRecord(b) == DOMAIN b = {"error", "details"}

\* the wrapped call in progress, or the last one, ended with a thrown error
LastAttemptFailed == outcomes # <<>> /\ ~outcomes[Len(outcomes)].ok
LastOutcome == outcomes[Len(outcomes)]

\* C2: once the intent-extraction call has returned a text, whatever the
\* text, the request ends in an error response only because a later
\* generation call failed, never because of the text.
C2_IntentTextNeverFailsRequest ==
    (Responded /\ extractionText # NoText /\ IsErrorRecord(LastResponse.body)) =>
        /\ genPrompt.kind # "extraction"
        /\ LastAttemptFailed
        /\ error = LastOutcome.error

\* a wrapped call has used its whole retry budget and its last attempt
\* failed with a transient signal (429, 503 or 504 in the message)
RetriesExhausted ==
    /\ Responded
    /\ Len(outcomes) = maxRetries + 1
    /\ LastAttemptFailed
    /\ isRetryable(LastOutcome.error)

QuotaResponse ==
    [status |-> 429, body |-> [error |-> <<"Quota Exceeded">>, details |-> QuotaDetails]]

\* C5 as stated: a call that still fails with a transient signal (429, 503
\* or 504) once the retries are used up is answered with the quota
\* response, never with the generic server-error response.
C5_TransientEndsInQuotaResponse == RetriesExhausted => LastResponse = QuotaResponse

\* C5 amended: such a call is answered with the quota response (status 429)
\* exactly when the error carries the 429 signal (its status is 429, or its
\* message contains "429" or "quota"); with only a 503 or 504 signal it is
\* answered with the generic server-error response (status 500) whose
\* details are the error's message.
C5_QuotaResponseOnlyFor429 ==
    RetriesExhausted =>
        IF \/ LastOutcome.error.status = 429
           \/ Includes(LastOutcome.error.message, <<"4", "2", "9">>)
           \/ Includes(LastOutcome.error.message, <<"q", "u", "o", "t", "a">>)
        THEN LastResponse = QuotaResponse
        ELSE /\ LastResponse.status = 500
             /\ LastResponse.body.error = <<"Internal Server Error">>
             /\ LastResponse.body.details = LastOutcome.error.message

\* C5 witness: three attempts of the completion call have failed with 429
\* in the message and the quota response has been returned.
C5_QuotaAfterThreeAttempts ==
    /\ RetriesExhausted
    /\ genPrompt.kind = "completion"
    /\ \A k \in 1..Len(outcomes) : Includes(outcomes[k].error.message, <<"4", "2", "9">>)
    /\ LastResponse = QuotaResponse

\* C6: a request produces exactly one response: none while an await of
\* the handler is pending (and then a step is possible), one once it has
\* ended; the response is a success record {reply, sources} with status
\* 200 or an error record {error, details} with an error status, never a
\* mix of the two.
C6_ExactlyOneResponse ==
    /\ Len(responses) = (IF ppc = "done" THEN 1 ELSE 0)
    /\ ppc # "done" => ENABLED Next
    /\ \A k \in 1..Len(responses) :
        \/ IsSuccessRecord(responses[k].body) /\ responses[k].status = 200
        \/ IsErrorRecord(responses[k].body) /\ responses[k].status \in {429, 500}

\* C6 witness: the request has ended with an error response after the
\* evidence had been retrieved (the completion call failed).
C6_ErrorAfterRetrieval ==
    /\ Responded
    /\ genPrompt.kind = "completion"
    /\ materials # <<>>
    /\ IsErrorRecord(LastResponse.body)

\* C7: the completion call is made only with a non-empty evidence list, and
\* a success response has sources = [] exactly when its reply came from the
\* no-evidence prompt.
C7_ComposeOnlyWithEvidence ==
    /\ genPrompt.kind = "completion" => (materials # <<>> /\ genPrompt.context # <<>>)
    /\ ppc = "compose" => genPrompt.kind = "completion"
    /\ ppc = "apology" => (genPrompt.kind = "fail" /\ materials = <<>>)
    /\ \A k \in 1..Len(responses) :
        IsSuccessRecord(responses[k].body) =>
            /\ genPrompt.kind \in {"fail", "completion"}
            /\ responses[k].body.sources = <<>> <=> genPrompt.kind = "fail"

\* C7 witness: the request has ended with the reply of the no-evidence
\* prompt and an empty sources list.
C7_ApologyWithNoSources ==
    /\ Responded
    /\ IsSuccessRecord(LastResponse.body)
    /\ LastResponse.body.sources = <<>>
    /\ genPrompt.kind = "fail"
    /\ LastResponse.body.reply = LastOutcome.text

\* the list the retrieval call that is returning hands to the handler
ReturnedList == IF spc = "done" THEN sret ELSE hret

\* block k of the prompt shows item k of the list ms
BlocksShow(context, ms) ==
    /\ Len(context) = Len(ms)
    /\ \A k \in 1..Len(ms) :
        /\ context[k].index = k
        /\ context[k].title = ms[k].title
        /\ context[k].page = ms[k].page
        /\ context[k].snippet = ms[k].snippet

\* C8: on the completion path the evidence kept is the list the last
\* retrieval call returned, the block numbered k of the prompt is its item
\* k, nothing changes it while the completion call runs, and the sources of
\* the response are that list, same items in the same order.
C8_SourcesAreLastRetrieval ==
    [][/\ (ppc \in {"retrieve", "broaden"} /\ ppc' = "compose") =>
            /\ materials' = ReturnedList
            /\ genPrompt'.kind = "completion"
            /\ BlocksShow(genPrompt'.context, ReturnedList)
       /\ ppc = "compose" => (materials' = materials /\ genPrompt' = genPrompt)
       /\ (ppc = "compose" /\ ppc' = "done" /\ IsSuccessRecord(responses'[1].body)) =>
            /\ responses'[1].body.sources = materials
            /\ BlocksShow(genPrompt.context, responses'[1].body.sources)
      ]_vars

\* C8 witness: a completion reply has been returned with two different
\* sources.
C8_TwoDifferentSources ==
    /\ Responded
    /\ genPrompt.kind = "completion"
    /\ IsSuccessRecord(LastResponse.body)
    /\ Len(LastResponse.body.sources) >= 2
    /\ LastResponse.body.sources[1] # LastResponse.body.sources[2]

\* the wrapped call failed twice with a transient signal and its third
\* attempt returned a result
ThirdAttemptSucceeded ==
    /\ Len(outcomes) = 3
    /\ \A k \in 1..2 : ~outcomes[k].ok /\ isRetryable(outcomes[k].error)
    /\ outcomes[3].ok

\* C10: with maxRetries = 2, a wrapped call that fails twice with a
\* transient signal and succeeds on its third attempt returns the result of
\* the third attempt after exactly two waits, of 1500 ms then 3000 ms, the
\* k-th wait lying between the k-th failure and attempt k + 1.
C10_TwoBackoffsThenThirdResult ==
    /\ gpc = "call" => (Len(waits) = attempt /\ Len(outcomes) = attempt)
    /\ gpc = "backoff" => (Len(waits) = attempt + 1 /\ Len(outcomes) = attempt + 1)
    /\ (ppc = "retrieve" /\ attempt = maxRetries) => waits = <<1500, 3000>>
    /\ ThirdAttemptSucceeded =>
        /\ waits = <<1500, 3000>>
        /\ attempt = maxRetries
        /\ Responded
        /\ genPrompt.kind = "extraction" => extractionText = StripFence(outcomes[3].text)
        /\ genPrompt.kind # "extraction" =>
            /\ IsSuccessRecord(LastResponse.body)
            /\ LastResponse.body.reply = outcomes[3].text

\* C10 witness: the completion call has returned its third attempt's text
\* after a 503 and a 429.
C10_ThirdAttemptReturned ==
    /\ ThirdAttemptSucceeded
    /\ genPrompt.kind = "completion"
    /\ Includes(outcomes[1].error.message, <<"5", "0", "3">>)
    /\ Includes(outcomes[2].error.message, <<"4", "2", "9">>)
    /\ LastResponse.status = 200

\* C11: a failure of a wrapped call that carries no transient marker is its
\* last attempt, on whichever attempt it happens: no wait follows it, the
\* request's catch gets that same error, and the waits made are those of
\* the failures before it.
C11_NonTransientPropagatesAtOnce ==
    \A k \in 1..Len(outcomes) :
        (~outcomes[k].ok /\ ~isRetryable(outcomes[k].error)) =>
            /\ k = Len(outcomes)
            /\ Len(waits) = k - 1
            /\ gpc = "idle"
            /\ Responded
            /\ error = outcomes[k].error

\* C11 witness: the second attempt of a call failed with an error without
\* a transient marker, after a first transient failure.
C11_NonTransientOnSecondAttempt ==
    /\ Len(outcomes) = 2
    /\ isRetryable(outcomes[1].error)
    /\ ~outcomes[2].ok
    /\ ~isRetryable(outcomes[2].error)
    /\ waits = <<1500>>

\* C12: the wrapper makes at most maxRetries + 1 attempts; when all of
\* them fail with transient signals the error of the last one reaches the
\* request's catch unchanged after exactly maxRetries waits, the k-th of
\* 1500 * k ms, and no wait follows the last failure.
C12_AtMostThreeAttempts ==
    /\ Len(outcomes) <= maxRetries + 1
    /\ attempt <= maxRetries
    /\ Len(waits) <= maxRetries
    /\ \A k \in 1..Len(waits) : waits[k] = 1500 * k
    /\ (/\ Len(outcomes) = maxRetries + 1
        /\ \A k \in 1..Len(outcomes) : ~outcomes[k].ok /\ isRetryable(outcomes[k].error)) =>
        /\ Len(waits) = maxRetries
        /\ gpc = "idle"
        /\ Responded
        /\ error = LastOutcome.error

\* C12 witness: three attempts of the extraction call have failed, the last
\* with 504 in its message.
C12_ThreeTransientFailures ==
    /\ Len(outcomes) = 3
    /\ \A k \in 1..3 : ~outcomes[k].ok /\ isRetryable(outcomes[k].error)
    /\ Includes(outcomes[3].error.message, <<"5", "0", "4">>)
    /\ genPrompt.kind = "extraction"
    /\ error = outcomes[3].error
    /\ waits = <<1500, 3000>>

\* the intent of the fallback of lines 67-69
DegradedIntent(msg) ==
    [query |-> msg, focusKeywords |-> ArrayValue(<<msg>>), isRandom |-> FALSE]

\* C13: when the extraction text without its fence is no JSON, the intent
\* the request goes on with is {query: message, focusKeywords: [message],
\* isRandom: false}, and a targeted retrieval that follows is called with it.
C13_DegradedIntentIsExact ==
    extractionText = NotJson =>
        /\ extractionData = DegradedIntent(message)
        /\ (ppc = "retrieve" /\ spc = "idle" /\ hpc # "idle") =>
              (query = message /\ keywords = <<message>>)
        /\ (ppc = "broaden" /\ hpc # "idle") => keywords = <<message>>

\* C13 witness: the targeted retrieval runs with the degraded intent.
C13_RetrievalWithDegradedIntent ==
    /\ extractionText = NotJson
    /\ ppc = "retrieve"
    /\ hpc = "page"
    /\ query = message
    /\ keywords = <<message>>

RandomIntent ==
    /\ extractionText # NoText
    /\ \/ extractionData.isRandom
       \/ Includes(message, CueRandom)
       \/ Includes(message, CueSomething)

\* the handler itself is waiting for searchHistoricalMaterials
DirectTargetedCall == hpc # "idle" /\ spc = "idle"

\* C15: with isRandom true, or a random cue in the message, the handler
\* calls searchRandomMaterial; searchHistoricalMaterials runs only inside
\* it, never called by the handler, and the broadened retrieval is never
\* made, also when the random path returns no evidence.
C15_RandomPathOnly ==
    RandomIntent =>
        /\ ~DirectTargetedCall
        /\ ppc # "broaden"
        /\ ppc = "retrieve" => spc # "idle"
        /\ hpc # "idle" => spc = "inner"

\* C15 witness: a request with a random intent whose random retrieval
\* returned nothing has been answered with the no-evidence reply.
C15_RandomFoundNothing ==
    /\ RandomIntent
    /\ extractionData.isRandom
    /\ Responded
    /\ IsSuccessRecord(LastResponse.body)
    /\ LastResponse.body.sources = <<>>
    /\ genPrompt.kind = "fail"

\* the first call of searchHistoricalMaterials by the handler is returning
FirstTargetedReturns ==
    /\ ppc = "retrieve" /\ spc = "idle" /\ hpc = "done"
    /\ ppc' # "retrieve"

\* C16: on the targeted path the broadened retrieval is made exactly when
\* the first retrieval returned an empty list, with the first
\* space-delimited token of the intent query followed by the three fixed
\* terms and with the same focus keywords; it is made at most once, and a
\* non-empty first retrieval goes straight to the completion call.
C16_BroadenIffFirstEmpty ==
    [][/\ FirstTargetedReturns =>
            IF hret = <<>>
            THEN /\ ppc' = "broaden"
                 /\ hpc' = "primary"
                 /\ query' = FirstToken(extractionData.query) \o BroaderSuffix
                 /\ keywords' = KeywordsOf(extractionData.focusKeywords)
            ELSE /\ ppc' = "compose"
                 /\ hpc' = "idle"
       /\ (ppc # "broaden" /\ ppc' = "broaden") => (FirstTargetedReturns /\ hret = <<>>)
       /\ (ppc = "broaden" /\ ppc' # "broaden") =>
            (ppc' \in {"apology", "compose"} /\ hpc' = "idle")]_vars

\* C17: searchHistoricalMaterials always comes back with a list: the
\* filtered results when nothing failed, and the empty list when its catch
\* has run (a failed document search, or any other failure outside the
\* passage queries), whatever had been collected before the failure.
C17_FailureReturnsEmptyList ==
    /\ caught => (hpc = "done" /\ hret = <<>>)
    /\ hpc = "done" => (caught \/ hret = FilterResults(results))
    /\ hpc # "done" => hret = <<>>

\* C17 witness: the call failed after items long enough to be returned had
\* been collected, and it has returned the empty list.
C17_FailedAfterCollecting ==
    /\ hpc = "done"
    /\ caught
    /\ FilterResults(results) # <<>>
    /\ hret = <<>>

\* the identifiers of the candidates before index i
IdsBefore(i) == {books[j].id : j \in 1..(i - 1)}

\* C18: a passage query is only ever issued for a document whose
\* identifier has not been processed in this call; every candidate before
\* it, whether it yielded items or not, is marked processed; and the items
\* of one identifier form one block of the results, so a later occurrence
\* of an identifier has added nothing.
C18_EachDocumentVisitedOnce ==
    /\ hpc = "page" =>
        /\ books[bi].id \notin seenPids
        /\ seenPids = IdsBefore(bi)
        /\ \A k \in 1..Len(results) : results[k].pid \in seenPids \cup {books[bi].id}
    /\ (hpc = "done" /\ ~caught /\ books # <<>>) =>
        /\ seenPids = IdsBefore(IF bi > Len(books) THEN bi ELSE bi + 1)
        /\ \A k \in 1..Len(results) : results[k].pid \in seenPids
    /\ \A a \in 1..Len(results), c \in 1..Len(results) :
        (a < c /\ results[a].pid = results[c].pid) =>
            \A b \in a..c : results[b].pid = results[a].pid

\* C18 witness: the candidate list held an identifier twice, its second
\* occurrence was passed over, and the passage query of a later document is
\* in flight with items already collected.
C18_RepeatedDocumentSkipped ==
    /\ hpc = "page"
    /\ bi = 3
    /\ books[1].id = books[2].id
    /\ results # <<>>

\* C19: cleanSnippet applied to its own result returns that result
\* unchanged, for every input text.
C19_CleanSnippetIdempotent ==
    cpc = "twice" => recleaned = cleaned

\* the answer of a passage query leaves at least InnerCap items collected
PageAnswerReachesInnerCap ==
    /\ hpc = "page"
    /\ hpc' # hpc \/ bi' # bi \/ ki' # ki
    /\ Len(results') >= InnerCap

\* C20 as stated: once a passage query leaves 8 or more items collected,
\* the call issues no further passage query, neither for the document at
\* hand nor for a later one.
C20_WholeRetrievalStopsAtEight ==
    [][PageAnswerReachesInnerCap => hpc' = "done"]_vars

\* C20: once a passage query leaves 8 or more items collected, no further
\* passage query is issued for the document at hand; the call ends if 10 or
\* more items are collected after that document's highlight step or no
\* unprocessed candidate is left, and otherwise goes on with the query of
\* the first keyword of the next unprocessed candidate.
C20_KeywordLoopStopsAtEight ==
    [][PageAnswerReachesInnerCap =>
        /\ hpc' \in {"page", "done"}
        /\ hpc' = "page" =>
            /\ bi' > bi
            /\ ki' = 1
            /\ Len(results') < OuterCap
            /\ books[bi'].id \notin seenPids'
        /\ hpc' = "done" =>
            \/ Len(results') >= OuterCap
            \/ caught'
            \/ \A j \in (bi + 1)..Len(books) : books[j].id \in seenPids']_vars

\* C20 witness: with 8 or 9 items collected, all of them from passage
\* queries, the query of the first keyword of a later document is in flight.
C20_QueryAfterEightItems ==
    /\ hpc = "page"
    /\ ki = 1
    /\ Len(results) >= InnerCap
    /\ \A k \in 1..Len(results) : results[k].page = PassageOf(results[k].pid).page

\* C23: the extraction call is made on the fixed model
\* gemini-2.0-flash-lite whatever the request names, and the no-evidence
\* and completion calls are made on the model of the request, which is the
\* requested one or else gemini-2.0-flash.
C23_ModelOfEachCall ==
    /\ genPrompt.kind = "extraction" => genModel = ExtractionModelName
    /\ genPrompt.kind \in {"fail", "completion"} =>
        /\ genModel = modelName
        /\ modelName \in (RequestedModels \ {Undefined}) \cup {DefaultModelName}
    /\ ppc \in {"extract", "retrieve", "broaden"} =>
        (genPrompt.kind = "extraction" /\ modelName # Undefined)
    /\ ppc \in {"apology", "compose"} => genPrompt.kind \in {"fail", "completion"}

\* C23 witness: the completion call of a request that named a model is in
\* flight on that model.
C23_ComposeOnRequestedModel ==
    /\ ppc = "compose"
    /\ gpc = "call"
    /\ genModel = <<"gemini-1.5-pro">>
    /\ genModel # ExtractionModelName

\* the error carries a rate or quota signal (status 429, or "429" or
\* "quota" in its message)
QuotaSignal(e) ==
    \/ e.status = 429
    \/ (e.message # Undefined /\ Includes(e.message, <<"4", "2", "9">>))
    \/ (e.message # Undefined /\ Includes(e.message, <<"q", "u", "o", "t", "a">>))

\* the request has been answered with the generic server-error response
GenericErrorResponse ==
    /\ Responded
    /\ Len(responses) = 1
    /\ LastResponse.status = 500
    /\ IsErrorRecord(LastResponse.body)
    /\ LastResponse.body.error = <<"Internal Server Error">>

\* C24 as stated: an exception without a rate or quota signal, thrown at
\* any stage, is answered with the generic server-error response, and the
\* details of that response are the message of the error.
C24_DetailsAreTheErrorMessage ==
    (error # NoError /\ ~QuotaSignal(error)) =>
        /\ GenericErrorResponse
        /\ LastResponse.body.details = error.message

\* C24: an exception without a rate or quota signal, thrown at any stage,
\* is answered with the generic server-error response; its details are the
\* message of the error when the error has one, and the fixed text of line
\* 139 when it has none.
C24_GenericResponseForOtherErrors ==
    (error # NoError /\ ~QuotaSignal(error)) =>
        /\ GenericErrorResponse
        /\ LastResponse.body.details =
              (IF error.message = Undefined \/ error.message = <<>>
               THEN DefaultDetails ELSE error.message)

\* C24 witness: a request whose first retrieval came back empty has failed
\* on the undefined query of its intent and has been answered with the
\* generic response carrying the message of the TypeError.
C24_TypeErrorAnswered ==
    /\ error = TypeError
    /\ extractionText # NoText
    /\ GenericErrorResponse
    /\ LastResponse.body.details = TypeError.message

\* a call of a retriever is open, or a document search is in flight
SearchOpen == hpc # "idle" \/ spc # "idle" \/ docReq # NoDocReq

\* C25: in a request with a key the extraction call comes first: while it
\* has not returned no retriever has been called and no other generation
\* call made; searches run only between its return and the reply call; and
\* the no-evidence or completion call is made only when every search of the
\* request is over.
C25_ExtractThenSearchThenReply ==
    /\ ppc \in {"start", "extract"} =>
        /\ ~SearchOpen
        /\ materials = <<>>
        /\ genPrompt.kind \in {"none", "extraction"}
    /\ SearchOpen =>
        /\ ~Falsy(apiKey) /\ apiKey # NoKey
        /\ ppc \in {"retrieve", "broaden"}
        /\ extractionText # NoText
        /\ genPrompt.kind = "extraction"
        /\ gpc = "idle"
    /\ genPrompt.kind \in {"fail", "completion"} =>
        /\ ~SearchOpen
        /\ extractionText # NoText
        /\ ppc \in {"apology", "compose", "done"}

\* C25 witness: the completion call is in flight with the evidence of a
\* retrieval, every search being over.
C25_ReplyAfterSearches ==
    /\ ppc = "compose"
    /\ gpc = "call"
    /\ ~SearchOpen
    /\ materials # <<>>
    /\ genPrompt.kind = "completion"

\* C26: the list searchRandomMaterial returns is shorter than the cap of
\* 10 of the targeted search.
C26_RandomListBelowTen ==
    spc = "done" => Len(sret) < OuterCap

\* the primary document search is answered with an empty candidate list
PrimaryReturnsNoDocuments ==
    /\ hpc = "primary"
    /\ hpc' # "primary"
    /\ books' = <<>>
    /\ caughtError' # "request failed"

\* C27: the primary document search asks for the whole query with size 15;
\* the loosened search is issued exactly when the primary search returned
\* no document, with the first space-delimited token of the query and size
\* 10, and its answer is never followed by another document search.
C27_LoosenedIffPrimaryEmpty ==
    [][/\ hpc = "primary" =>
            docReq = [keyword |-> query, from |-> -1, size |-> 15]
       /\ (hpc = "primary" /\ hpc' # "primary") =>
            (hpc' = "loosened" <=> PrimaryReturnsNoDocuments)
       /\ (hpc # "loosened" /\ hpc' = "loosened") =>
            /\ hpc = "primary"
            /\ docReq' = [keyword |-> FirstToken(query), from |-> -1, size |-> 10]
       /\ (hpc = "loosened" /\ hpc' # "loosened") =>
            (hpc' \in {"page", "done"} /\ docReq' = NoDocReq)]_vars

\* the items of results that carry the identifier id, in order
ItemsOf(id) == SelectSeq(results, LAMBDA r : r.pid = id)

\* the candidate with the identifier id
BookOf(id) == CHOOSE b \in BookUniverse : b.id = id

\* the page label the claim gives a highlight of the model: the number of
\* its "(<digits>.jp2)" pattern, "1" without one
LabelOf(hl) ==
    IF hl = HlPaged THEN <<"1", "2">>
    ELSE IF hl = HlOther THEN <<"7">>
    ELSE <<"1">>

\* the items are passages of the document b
ArePassageItems(b, items) ==
    /\ items # <<>>
    /\ \A k \in 1..Len(items) :
        /\ items[k].page = PassageOf(b.id).page
        /\ items[k].snippet = Cleaned(PassageOf(b.id).snippet)

\* the items are one per highlight of the document b, in order, none when
\* it has no highlight
AreHighlightItems(b, items) ==
    /\ Len(items) = Len(OrEmpty(b.highlights))
    /\ \A k \in 1..Len(items) :
        /\ items[k].page = LabelOf(b.highlights.val[k])
        /\ items[k].snippet = Cleaned(b.highlights.val[k])
        /\ items[k].title = b.title

\* C29: for every document whose visit is complete, either the passage
\* method appended items and no highlight item was added, or it appended
\* none and the document's items are exactly one per highlight, in order,
\* labelled with the number of the "(<digits>.jp2)" pattern or with "1".
C29_HighlightsOnlyWithoutPassages ==
    \A id \in seenPids :
        \/ ArePassageItems(BookOf(id), ItemsOf(id))
        \/ AreHighlightItems(BookOf(id), ItemsOf(id))

\* C29 witness: the three highlight items of one document and the passage
\* items of another document that has a highlight are in results.
C29_BothMethodsUsed ==
    /\ {Book2.id, Book4.id} \subseteq seenPids
    /\ Len(ItemsOf(Book2.id)) = 3
    /\ AreHighlightItems(Book2, ItemsOf(Book2.id))
    /\ ArePassageItems(Book4, ItemsOf(Book4.id))

\* the index in books of the first candidate with the identifier id
DocIndex(id) == CHOOSE j \in 1..Len(books) :
                    books[j].id = id /\ \A i \in 1..(j - 1) : books[i].id # id

\* p is a prefix of q
IsPrefix(p, q) == Len(p) <= Len(q) /\ SubSeq(q, 1, Len(p)) = p

\* items of an earlier candidate stand before items of a later one
InDocumentOrder(list) ==
    \A a \in 1..Len(list), b \in 1..Len(list) :
        a < b => DocIndex(list[a].pid) <= DocIndex(list[b].pid)

\* C30: results only grows at its end; the answer of a passage query adds
\* items of the document at hand only, the keywords of a document being
\* queried in their order and the documents in theirs; so results and the
\* returned list are in document order, and the returned list is results
\* without its short items, the others in the same order.
C30_DiscoveryOrder ==
    /\ [](/\ hpc \in {"page", "done"} => InDocumentOrder(results)
          /\ (hpc = "done" /\ ~caught) =>
                /\ hret = SelectSeq(results, LAMBDA r : Len(r.snippet) > 5)
                /\ InDocumentOrder(hret))
    /\ [][hpc = "page" =>
            /\ IsPrefix(results, results')
            /\ (hpc' = "page" /\ bi' = bi) =>
                /\ ki' = ki + 1
                /\ \A k \in (Len(results) + 1)..Len(results') :
                        results'[k].pid = books[bi].id
            /\ (hpc' = "page" /\ bi' # bi) => (bi' > bi /\ ki' = 1)
            /\ \A k \in (Len(results) + 1)..Len(results') :
                    DocIndex(results'[k].pid) >= DocIndex(books[bi].id)]_vars

\* C30 witness: the call has returned items of two documents, results
\* holding a short item that the filter dropped.
C30_TwoDocumentsReturned ==
    /\ hpc = "done"
    /\ ~caught
    /\ Len(hret) >= 3
    /\ hret[1].pid # hret[Len(hret)].pid
    /\ Len(hret) < Len(results)
    /\ Len(results[1].snippet) <= 5

\* the passage query in flight is one the endpoint does not answer
FailingQueryInFlight == hpc = "page" /\ QueryFails(books[bi].id, keywords[ki])

\* C28: when the passage query of a keyword fails, the call goes on: the
\* items collected stay, no item of that query is added, the catch of line
\* 97 does not run for it, and the next keyword of the document is queried
\* (or, after the last keyword or with 8 items collected, the document's
\* highlight step and the next documents follow) as after an answer
\* without passages.
C28_FailedQueryIsNoMatch ==
    [][FailingQueryInFlight =>
        /\ IsPrefix(results, results')
        /\ caughtError' # "request failed"
        /\ hpc' \in {"page", "done"}
        /\ IF ki < Len(keywords) /\ Len(results) < 8
           THEN /\ hpc' = "page"
                /\ bi' = bi
                /\ ki' = ki + 1
                /\ results' = results
                /\ seenPids' = seenPids
           ELSE /\ books[bi].id \in seenPids'
                /\ hpc' = "page" => (bi' > bi /\ ki' = 1)
                /\ \A k \in (Len(results) + 1)..Len(results') :
                        results'[k].page # PassageOf(books[bi].id).page]_vars

\* C28 witness: the query of the second keyword of a document has failed
\* and the query of its third keyword is in flight, the items of the first
\* keyword and of an earlier document being kept.
C28_NextKeywordAfterFailure ==
    /\ hpc = "page"
    /\ bi = 2
    /\ ki = 3
    /\ QueryFails(books[bi].id, keywords[2])
    /\ Len(ItemsOf(books[1].id)) > 0
    /\ Len(ItemsOf(books[2].id)) > 0

\* ------------------------------------------------------------------------
\* Scenario A (checked under SpecWide)
\* ------------------------------------------------------------------------
\* the retrieval has ended on three distinct documents, the passage search
\* having returned two passages in all for each, their excerpts longer than
\* 5 characters once normalised, and no item comes from a highlight
ThreeDocumentsTwoPassagesEach ==
    /\ hpc = "done"
    /\ Len(books) = 3
    /\ Cardinality({books[i].id : i \in 1..3}) = 3
    /\ \A i \in 1..3 :
        /\ served[books[i].id] = 2
        /\ Len(Cleaned(PassageOf(books[i].id).snippet)) > 5
    /\ \A k \in 1..Len(results) :
        results[k].snippet = Cleaned(PassageOf(results[k].pid).snippet)

\* C22: when the document search has returned 3 distinct documents and the
\* passage search 2 passages in all for each of them (excerpts longer than 5
\* characters, no highlight used), the retriever returns exactly 6 items,
\* two for each document in the order of the documents; the handler keeps
\* that list as its materials and calls the completion with it, and the
\* sources of the completion response are the materials, unchanged.
C22_SixItemsSixSources ==
    /\ [](ThreeDocumentsTwoPassagesEach =>
            /\ Len(hret) = 6
            /\ \A i \in 1..3 : \A k \in {2 * i - 1, 2 * i} :
                /\ hret[k].pid = books[i].id
                /\ hret[k].title = books[i].title
                /\ hret[k].page = PassageOf(books[i].id).page
                /\ hret[k].snippet = Cleaned(PassageOf(books[i].id).snippet))
    /\ [][/\ (ThreeDocumentsTwoPassagesEach /\ ppc \in {"retrieve", "broaden"}) =>
                (materials' = hret /\ ppc' = "compose")
          /\ (ppc = "compose" => materials' = materials)
          /\ (ppc = "compose" /\ ppc' = "done" /\ IsSuccessRecord(responses'[1].body)) =>
                responses'[1].body.sources = materials]_vars

\* C22 witness: the completion response of a request whose first retrieval
\* found three documents carries 6 sources, two for each document.
C22_SixSourcesReturned ==
    /\ Responded
    /\ IsSuccessRecord(LastResponse.body)
    /\ extractionText = WideIntent
    /\ Len(LastResponse.body.sources) = 6
    /\ \A k \in 1..6 :
        LastResponse.body.sources[k].pid =
            (IF k <= 2 THEN Book3.id ELSE IF k <= 4 THEN Book1.id ELSE Book2.id)

\* ------------------------------------------------------------------------
\* Two requests at once (checked under SpecPair)
\* ------------------------------------------------------------------------
\* the locals f of a request agree with one another: the documents seen and
\* the items collected are of its own candidates, the completion prompt
\* shows its own materials and message, and its answer carries them
OwnState(f) ==
    LET ids == {f.books[i].id : i \in 1..Len(f.books)} IN
    /\ f.seenPids \subseteq ids
    /\ \A k \in 1..Len(f.results) : f.results[k].pid \in ids
    /\ \A id \in DOMAIN f.served : f.served[id] > 0 => id \in ids
    /\ f.genPrompt.kind = "completion" =>
        /\ BlocksShow(f.genPrompt.context, f.materials)
        /\ f.genPrompt.message = f.message
    /\ (f.ppc = "done" /\ IsSuccessRecord(f.responses[1].body)) =>
        /\ Len(f.responses) = 1
        /\ f.responses[1].body.sources =
               (IF f.genPrompt.kind = "completion" THEN f.materials ELSE <<>>)

\* C21: with two requests in flight and the event loop free to pass from one
\* to the other at every await and backoff, every step is either a step of
\* one request as it is taken when the request runs alone, which leaves the
\* locals of the waiting request as they are, or the passage to the waiting
\* request, which finds its locals exactly as it left them; the locals of
\* each request agree with one another at all times. So each request goes
\* through the states, and gives the response, of a run on its own with the
\* same answers of the services.
C21_RequestsDoNotInterfere ==
    /\ [](OwnState(Frame) /\ OwnState(suspended))
    /\ [][\/ Next /\ suspended' = suspended
          \/ Frame' = suspended /\ suspended' = Frame]_vars

\* C21 witness: one request waits for the answer of its passage query in
\* the first document while the other, which has collected items of the
\* second document and has its retrieval returned, waits to be resumed.
C21_BothInFlight ==
    /\ hpc = "page"
    /\ books[bi].id = Book1.id
    /\ suspended.ppc = "retrieve"
    /\ suspended.hpc = "done"
    /\ suspended.seenPids = {Book2.id}
    /\ Len(suspended.hret) > 0

\* ------------------------------------------------------------------------
\* Shape of the items, the random retriever, termination and call counts
\* ------------------------------------------------------------------------
\* the link of the item is the address of its page in its document
LinkIsOfItsPage(r) == r.link = LinkBase \o r.pid \o <<"/">> \o r.page

\* the item carries the identifier and the title of a candidate of books
IsOfACandidate(r) ==
    \E i \in 1..Len(books) : r.pid = books[i].id /\ r.title = books[i].title

\* C31: every item collected and every item returned, by the passage method
\* or from a highlight, has the link "https://dl.ndl.go.jp/pid/" + pid + "/"
\* + page, and its pid and title are those of one candidate document; the
\* items a passage answer or a highlight step adds are of the document at
\* hand.
C31_LinkTitleAndIdOfTheDocument ==
    /\ [](/\ \A k \in 1..Len(results) :
                LinkIsOfItsPage(results[k]) /\ IsOfACandidate(results[k])
          /\ \A k \in 1..Len(hret) : LinkIsOfItsPage(hret[k]) /\ IsOfACandidate(hret[k])
          /\ \A k \in 1..Len(sret) : LinkIsOfItsPage(sret[k]))
    /\ [][hpc = "page" =>
            \A k \in (Len(results) + 1)..Len(results') :
                \E i \in bi..Len(books) :
                    /\ results'[k].pid = books[i].id
                    /\ results'[k].title = books[i].title]_vars

\* C31 witness: the returned list holds an item of the passage method and
\* an item made from a highlight with a page number of its own.
C31_BothKindsReturned ==
    /\ hpc = "done"
    /\ \E a \in 1..Len(hret), b \in 1..Len(hret) :
        /\ hret[a].pid = Book1.id
        /\ hret[a].page = PassageOf(Book1.id).page
        /\ hret[b].pid = Book2.id
        /\ hret[b].snippet = Cleaned(HlPaged)
        /\ hret[b].page = <<"1", "2">>

\* the thematic keywords and the focus terms of searchRandomMaterial
ThematicSet ==
    { <<"kai", "dan">>, <<"ki", "dan">>, <<"jitsu", "roku">>, <<"hyaku", "mono", "gatari">>,
      <<"kai", "i">>, <<"bake", "mono">>, <<"yuu", "rei">>, <<"shou", "wa">> }

FixedFocusTerms == << <<"kai">>, <<"oni">>, <<"onna">>, <<"otoko">>, <<"shi">>, <<"rei">> >>

\* C32: the document search of searchRandomMaterial asks for a keyword of
\* the thematic set, an offset in 0..49 and size 5, and is made once: when it
\* is answered the call either ends with the empty list, the targeted
\* retriever not having been called, or calls the targeted retriever with
\* the title of a document of the endpoint and the six focus terms; that
\* call is the only one, and when it returns its list is the list returned.
C32_OneSearchThenOneTargetedCall ==
    /\ [](spc = "search" =>
            /\ docReq.keyword \in ThematicSet
            /\ docReq.from \in 0..49
            /\ docReq.size = 5
            /\ hpc = "idle")
    /\ [][/\ spc = "search" =>
               /\ spc' \in {"done", "inner"}
               /\ spc' = "done" => (sret' = <<>> /\ hpc' = "idle")
               /\ spc' = "inner" =>
                    /\ hpc' = "primary"
                    /\ \E b \in catalogue.books : query' = b.title
                    /\ keywords' = FixedFocusTerms
                    /\ docReq' = [keyword |-> query', from |-> -1, size |-> 15]
          /\ spc = "inner" =>
               /\ spc' \in {"inner", "done"}
               /\ spc' = "inner" =>
                    /\ query' = query /\ keywords' = keywords
                    /\ hpc' # "idle"
                    /\ hpc' = "primary" => hpc = "primary"
               /\ spc' = "done" => (hpc = "done" /\ sret' = hret /\ hpc' = "idle")
          /\ spc = "done" => spc' # "search" /\ spc' # "inner"]_vars

\* C32 witness: the random retriever has returned a list of several items,
\* the list of its call of the targeted retriever.
C32_RandomReturnedSeveral ==
    /\ ppc = "idle"
    /\ spc = "done"
    /\ Len(sret) >= 2

\* C33: a request whose calls of the services are all answered, or fail,
\* and whose backoff timers fire, comes to the end of the handler and has
\* returned one response (checked under SpecLive).
C33_EveryRequestAnswered == <>(ppc = "done" /\ Len(responses) = 1)

\* C33 witness: a request has been answered with the no-evidence reply after
\* a broadened retrieval and two backoff waits of the reply call.
C33_AnsweredAfterEveryStage ==
    /\ Responded
    /\ IsSuccessRecord(LastResponse.body)
    /\ genPrompt.kind = "fail"
    /\ Len(waits) = 2
    /\ extractionData.query # Undefined

\* C34: a request makes at most 2 logical generation calls, the extraction
\* and then either the completion or the no-evidence call, so at most 6
\* attempts with at most 4 backoff waits between them; it makes at most 4
\* document searches when the targeted retriever is chosen and at most 3
\* when the random retriever is (checked under SpecCount).
C34_CallsOfARequestBounded ==
    /\ calls.gen = (IF genPrompt.kind = "none" THEN 0
                    ELSE IF genPrompt.kind = "extraction" THEN 1 ELSE 2)
    /\ calls.gen <= 2
    /\ calls.attempts <= 6
    /\ calls.attempts <= 3 * calls.gen
    /\ calls.waits <= 4
    /\ calls.waits <= 2 * calls.gen
    /\ calls.docs <= (IF WantsRandom(extractionData, message) THEN 3 ELSE 4)

\* C34 witness: a request has been answered after 6 attempts, 4 waits and
\* 4 document searches.
C34_EveryBoundReached ==
    /\ Responded
    /\ calls.gen = 2
    /\ calls.attempts = 6
    /\ calls.waits = 4
    /\ calls.docs = 4

\* ------------------------------------------------------------------------
\* The two caps of the retriever (checked under SpecRetrieve)
\* ------------------------------------------------------------------------
\* every item collected comes from a passage: no highlight has been used
OnlyPassageItems ==
    \A k \in 1..Len(results) :
        results[k].snippet = Cleaned(PassageOf(results[k].pid).snippet)

\* C35: with passage answers of at most 2 passages and no item made from a
\* highlight (as when no candidate carries highlights), the retriever
\* collects and returns at most 11 items; a passage query is in flight with
\* at most 9 items collected, and with 8 or 9 collected it is the query of
\* the first keyword of a document just entered, whose answer is pushed
\* before the outer cap is tested.
C35_AtMostElevenWithoutHighlights ==
    /\ [](/\ OnlyPassageItems => (Len(results) <= 11 /\ Len(hret) <= 11)
          /\ hpc = "page" => Len(results) <= 9
          /\ (hpc = "page" /\ Len(results) >= 8) => ki = 1)
    /\ [][(hpc = "page" /\ Len(results) >= 8) =>
            /\ IsPrefix(results, results')
            /\ Len(results') <= Len(results) + 2 + Len(OrEmpty(books[bi].highlights))
            /\ Len(OrEmpty(books[bi].highlights)) = 0 =>
                    Len(results') <= Len(results) + 2]_vars

\* C35 witness: the retriever has returned 11 items, none from a highlight,
\* the last document having been entered with 9 items collected.
C35_ElevenReturned ==
    /\ hpc = "done"
    /\ ~caught
    /\ OnlyPassageItems
    /\ Len(hret) = 11
    /\ Len(books) = 3
    /\ Len(ItemsOf(books[3].id)) = 2

\* a passage query is pending with 8 or more items collected
QueryPastInnerCap == hpc = "page" /\ Len(results) >= InnerCap

PassagesAreShort(b) == Len(Cleaned(PassageOf(b.id).snippet)) <= 5

\* C37: a candidate the passage search has served at least one passage for
\* has passage items only in results, never an item made from one of its
\* highlights; when all its passage items are short, the list returned has
\* no item of that document at all, highlights or not.
C37_FallbackDecidedBeforeFilter ==
    \A j \in 1..Len(books) :
        served[books[j].id] > 0 =>
            /\ ArePassageItems(books[j], ItemsOf(books[j].id))
            /\ (hpc = "done" /\ PassagesAreShort(books[j])) =>
                    \A k \in 1..Len(hret) : hret[k].pid # books[j].id

\* C37 witness: the retrieval has returned items, none of them of a visited
\* document that has a highlight and was served short passages only.
C37_DocumentContributesNothing ==
    /\ hpc = "done"
    /\ ~caught
    /\ hret # <<>>
    /\ \E j \in 1..Len(books) :
        /\ books[j].id \in seenPids
        /\ served[books[j].id] > 0
        /\ PassagesAreShort(books[j])
        /\ Len(OrEmpty(books[j].highlights)) > 0
        /\ Len(Cleaned(books[j].highlights.val[1])) > 5
        /\ \A k \in 1..Len(hret) : hret[k].pid # books[j].id

\* ------------------------------------------------------------------------
\* The retry wrapper and the status of an error (checked under Spec)
\* ------------------------------------------------------------------------
\* the error has the status 429 and no 429, 503 or 504 in its message
QuotaByStatusOnly(e) ==
    /\ e.status = 429
    /\ ~MessageIncludes(e, <<"4", "2", "9">>)
    /\ ~MessageIncludes(e, <<"5", "0", "3">>)
    /\ ~MessageIncludes(e, <<"5", "0", "4">>)

\* C38: an attempt of a wrapped call that fails with an error of status 429
\* whose message holds none of 429, 503, 504 is the last attempt of the
\* call: no wait follows it (none at all when it is the first attempt), the
\* request's catch gets that error and the request is answered with the
\* quota response.
C38_Status429WithoutMarkerNotRetried ==
    \A k \in 1..Len(outcomes) :
        (~outcomes[k].ok /\ QuotaByStatusOnly(outcomes[k].error)) =>
            /\ k = Len(outcomes)
            /\ attempt = k - 1
            /\ Len(waits) = k - 1
            /\ gpc = "idle"
            /\ error = outcomes[k].error
            /\ Responded
            /\ LastResponse = QuotaResponse

\* C38 witness: the first attempt of the completion call failed with status
\* 429 and the message "limit"; the quota response was returned after that
\* single attempt and no wait.
C38_QuotaAfterSingleAttempt ==
    /\ Responded
    /\ genPrompt.kind = "completion"
    /\ Len(outcomes) = 1
    /\ ~outcomes[1].ok
    /\ QuotaByStatusOnly(outcomes[1].error)
    /\ waits = <<>>
    /\ LastResponse = QuotaResponse

\* ------------------------------------------------------------------------
\* The chat page in use
\* ------------------------------------------------------------------------
InitChat ==
    /\ ServerIdle
    /\ RenderIdle
    /\ CleanIdle
    /\ ChatIdle

NextChat ==
    \/ LoadThreads
    \/ createNewThread
    \/ SelectThread
    \/ confirmDelete
    \/ CancelDelete
    \/ executeDelete
    \/ ChangeInput
    \/ handleSubmit
    \/ AfterFetch

SpecChat == InitChat /\ [][NextChat]_vars

\* ------------------------------------------------------------------------
\* The chat page: one request at a time, answered in its own thread
\* (checked under SpecChat)
\* ------------------------------------------------------------------------
\* this step sends a request / ends a request
RequestSent == Len(inflight') > Len(inflight)
RequestEnded == Len(inflight') < Len(inflight)

\* C39: at most one request of the page is in flight, and isLoading is true
\* exactly while one is; a call of handleSubmit while isLoading is true, with
\* an input that is blank once trimmed or with no active thread sends
\* nothing and leaves threads, input, isLoading and activeThreadId as they
\* were; a request is sent only by a call that passes these three tests,
\* with none in flight; and the end of a request, whatever its outcome,
\* leaves isLoading false.
C39_OneRequestAtATime ==
    /\ [](/\ Len(inflight) <= 1
          /\ isLoading <=> Len(inflight) = 1)
    /\ [][/\ (handleSubmit /\ SubmitIgnored) =>
                UNCHANGED <<threads, inflight, isLoading, input, activeThreadId>>
          /\ RequestSent =>
                /\ handleSubmit
                /\ ~isLoading
                /\ Trim(input) # <<>>
                /\ activeThreadId # Null
                /\ inflight = <<>>
          /\ RequestEnded => (~isLoading' /\ inflight' = <<>>)]_vars

\* C39 witness: a call of handleSubmit has been ignored while the one
\* request sent is in flight.
C39_SubmitIgnoredWhileLoading ==
    /\ isLoading
    /\ Len(inflight) = 1
    /\ uiLog.submit = "ignored"

\* the list has a thread with the identifier id; that thread
HasThread(ts, id) == \E j \in 1..Len(ts) : ts[j].id = id
ThreadWith(ts, id) == ts[CHOOSE j \in 1..Len(ts) : ts[j].id = id]

\* the thread after is the thread before with one message more, of one of
\* the given roles
OneMessageMore(before, after, roles) ==
    /\ after.id = before.id
    /\ Len(after.messages) = Len(before.messages) + 1
    /\ SubSeq(after.messages, 1, Len(before.messages)) = before.messages
    /\ after.messages[Len(after.messages)].role \in roles

\* C40: a request carries the identifier of the thread that is active when
\* handleSubmit sends it; when the request ends, the thread with that
\* identifier, active or not, gets exactly one more message (the reply or
\* a system message), no thread is added or removed, every other thread is
\* left as it was, and so is the whole list when no thread has that
\* identifier any more.
C40_AnswerGoesToTheSubmittingThread ==
    [][/\ RequestSent =>
            /\ inflight'[1].thread = activeThreadId
            /\ Len(threads') = Len(threads)
            /\ \A k \in 1..Len(threads) :
                /\ HasThread(threads', threads[k].id)
                /\ IF threads[k].id = activeThreadId
                   THEN OneMessageMore(threads[k], ThreadWith(threads', threads[k].id),
                                       {"user"})
                   ELSE ThreadWith(threads', threads[k].id) = threads[k]
       /\ RequestEnded =>
            /\ activeThreadId' = activeThreadId
            /\ Len(threads') = Len(threads)
            /\ \A k \in 1..Len(threads) :
                /\ HasThread(threads', threads[k].id)
                /\ IF threads[k].id = inflight[1].thread
                   THEN OneMessageMore(threads[k], ThreadWith(threads', threads[k].id),
                                       {"assistant", "system"})
                   ELSE ThreadWith(threads', threads[k].id) = threads[k]
            /\ ~HasThread(threads, inflight[1].thread) => threads' = threads]_vars

\* C40 witness: the last answer went to a thread that was not the active
\* one when it arrived; that thread ends with the answer and the active
\* thread holds its welcome message only.
C40_AnswerInTheOtherThread ==
    /\ uiLog.delivery = "other"
    /\ ~isLoading
    /\ \E k, a \in 1..Len(threads) :
        /\ threads[k].id # activeThreadId
        /\ threads[k].messages[Len(threads[k].messages)].role \in {"assistant", "system"}
        /\ Len(threads[k].messages) = 3
        /\ threads[k].title = <<"h", "i", " ">>
        /\ threads[a].id = activeThreadId
        /\ threads[a].messages = <<WelcomeMessage>>

====
